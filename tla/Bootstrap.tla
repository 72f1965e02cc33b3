------------------------------ MODULE Bootstrap ------------------------------
(***************************************************************************)
(* How the demo network comes up (demo/src/bin/bootstrap.rs and            *)
(* mldsa_bootstrap.rs, the main functions of signer.rs, mldsa_signer.rs    *)
(* and holder.rs, demo/src/storage.rs).  The containers start in any order *)
(* and meet through files: the bootstrap draws a run identifier, members   *)
(* derive their keys from it and publish them, the bootstrap assembles the *)
(* anchor, members and the holder load it.  Any of them may die anywhere   *)
(* and is started again by the operator.                                   *)
(*                                                                         *)
(* write_atomic is one step here; a reader sees the old file or the new    *)
(* one.  A run identifier is random: it is never drawn twice.  The record  *)
(* is seen as the anchor that it was signed for, the counter as the key it *)
(* belongs to and its next slot, the mark as the anchor it belongs to.     *)
(* Left out: addresses, roles and the prover's setup.                      *)
(***************************************************************************)
EXTENDS Integers, FiniteSets

CONSTANTS
  N,           \* N_MEMBERS
  Stateful,    \* XMSS members have a slot counter, ML-DSA members have none
  MaxRuns,     \* bound: run identifiers that are drawn
  MaxSlot,     \* KEY_SLOTS: the last slot of a key's window
  MaxFaults    \* bound: processes that die, files that are lost, failed reads

ASSUME SizeAssumption == N \in Nat \ {0}
ASSUME StatefulAssumption == Stateful \in BOOLEAN
ASSUME BoundAssumption == MaxRuns \in Nat /\ MaxSlot \in Nat /\ MaxFaults \in Nat

VARIABLES
  runId,       \* committee/run-id
  keyFile,     \* committee/pk-<index>.ssz
  anchor,      \* committee/anchor.bin
  record,      \* storage/status-current.ssz
  counter,     \* state/slot-counter of every member
  mark,        \* state/highwater of the holder
  provisioned, \* the holder's state volume exists
  boot,        \* the bootstrap process
  node,        \* the member processes
  holder,      \* the holder process
  runs,        \* run identifiers drawn so far
  spent,       \* history: the keys and slots that have signed
  rotated,     \* history: since the volumes were new, an existing run was taken for none
  faults       \* deaths, losses and failed reads so far

shared == <<runId, keyFile, anchor, record>>
private == <<counter, mark, provisioned>>
procs == <<boot, node, holder>>
history == <<runs, spent, rotated, faults>>
vars == <<shared, private, procs, history>>

Member == 0 .. N - 1
NoRun == 0
Run == 1 .. MaxRuns

\* A key is derived from a member's secret and the run identifier.
Key == [member : Member, run : Run]
NoKey == [member |-> -1, run |-> NoRun]

\* An anchor names the key of every index.
Anchor == [Member -> Key]
NoAnchor == [m \in Member |-> NoKey]

Counter == [key : Key, next : 0 .. MaxSlot + 1]
NoCounter == [key |-> NoKey, next |-> 0]

\* The files of the committee volume; a key file is named by its index.
AnchorFile == -1
RunIdFile == -2
CommitteeFile == Member \cup {AnchorFile, RunIdFile}

BootPhase == {"down", "reset", "draw", "collect", "done"}
NodePhase == {"down", "run", "key", "counter", "anchor", "ready"}
HolderPhase == {"down", "create", "open", "ready"}

TypeOK ==
  /\ runId \in Run \cup {NoRun}
  /\ keyFile \in [Member -> Key \cup {NoKey}]
  /\ anchor \in Anchor \cup {NoAnchor}
  /\ record \in Anchor \cup {NoAnchor}
  /\ counter \in [Member -> Counter \cup {NoCounter}]
  /\ mark \in Anchor \cup {NoAnchor}
  /\ provisioned \in BOOLEAN
  /\ boot \in [pc : BootPhase, todo : SUBSET CommitteeFile,
               members : [Member -> Key \cup {NoKey}], index : 0 .. N]
  /\ node \in [Member -> [pc : NodePhase, key : Key \cup {NoKey}, committee : Anchor \cup {NoAnchor}]]
  /\ holder \in [pc : HolderPhase, committee : Anchor \cup {NoAnchor}]
  /\ runs \in 0 .. MaxRuns
  /\ spent \in SUBSET (Key \X (0 .. MaxSlot))
  /\ rotated \in BOOLEAN
  /\ faults \in 0 .. MaxFaults

BootDown == [pc |-> "down", todo |-> {}, members |-> NoAnchor, index |-> 0]
NodeDown == [pc |-> "down", key |-> NoKey, committee |-> NoAnchor]
HolderDown == [pc |-> "down", committee |-> NoAnchor]

\* Empty volumes, nothing running.
Init ==
  /\ runId = NoRun
  /\ keyFile = NoAnchor /\ anchor = NoAnchor /\ record = NoAnchor
  /\ counter = [m \in Member |-> NoCounter]
  /\ mark = NoAnchor /\ provisioned = FALSE
  /\ boot = BootDown
  /\ node = [m \in Member |-> NodeDown]
  /\ holder = HolderDown
  /\ runs = 0 /\ spent = {} /\ rotated = FALSE /\ faults = 0

-----------------------------------------------------------------------------
(* The bootstrap process                                                   *)

Fault == faults < MaxFaults /\ faults' = faults + 1

\* The files that the committee volume holds now.
Present ==
  {m \in Member : keyFile[m] # NoKey}
    \cup (IF anchor = NoAnchor THEN {} ELSE {AnchorFile})
    \cup (IF runId = NoRun THEN {} ELSE {RunIdFile})

\* reset opens the committee directory and lists it.
BeginReset == boot' = [BootDown EXCEPT !.pc = "reset", !.todo = Present]

\* A run identifier that was read is resumed; otherwise everything is cleared, also
\* when there is one that cannot be read.
BootStart ==
  /\ boot.pc \in {"down", "done"}
  /\ \/ /\ runId # NoRun
        /\ boot' = [BootDown EXCEPT !.pc = "collect"]
        /\ UNCHANGED <<rotated, faults>>
     \/ /\ runId = NoRun
        /\ BeginReset
        /\ UNCHANGED <<rotated, faults>>
     \/ /\ runId # NoRun /\ runs < MaxRuns
        /\ Fault
        /\ BeginReset
        /\ rotated' = TRUE
  /\ UNCHANGED <<shared, private, node, holder, runs, spent>>

\* Mutant: only the committee volume is cleared.
ResetCommitteeOnly ==
  /\ boot.pc = "reset"
  /\ runId' = NoRun
  /\ keyFile' = NoAnchor
  /\ anchor' = NoAnchor
  /\ boot' = [boot EXCEPT !.pc = "draw", !.todo = {}]
  /\ UNCHANGED <<record, private, node, holder, history>>

\* reset: the files of the committee volume one by one, the run identifier among
\* them, then those of storage.  What was listed is removed; a file that appeared
\* since may be met too.
Reset ==
  /\ boot.pc = "reset"
  /\ \/ \E f \in boot.todo \cup Present :
          /\ boot' = [boot EXCEPT !.todo = @ \ {f}]
          /\ runId' = IF f = RunIdFile THEN NoRun ELSE runId
          /\ anchor' = IF f = AnchorFile THEN NoAnchor ELSE anchor
          /\ keyFile' = [m \in Member |-> IF m = f THEN NoKey ELSE keyFile[m]]
          /\ UNCHANGED record
     \/ /\ boot.todo = {}
        /\ record' = NoAnchor
        /\ boot' = [boot EXCEPT !.pc = "draw"]
        /\ UNCHANGED <<runId, keyFile, anchor>>
  /\ UNCHANGED <<private, node, holder, history>>

\* A new random identifier is published.
DrawRun ==
  /\ boot.pc = "draw"
  /\ runs < MaxRuns
  /\ runs' = runs + 1
  /\ runId' = runs + 1
  /\ boot' = [boot EXCEPT !.pc = "collect"]
  /\ UNCHANGED <<keyFile, anchor, record, private, node, holder, spent, rotated, faults>>

\* Mutant: the members are listed in the order in which their keys are found.
CollectAsTheyCome ==
  /\ boot.pc = "collect"
  /\ boot.index < N
  /\ \E m \in Member :
       /\ keyFile[m] # NoKey
       /\ \A i \in Member : boot.members[i] # keyFile[m]
       /\ boot' = [boot EXCEPT !.members[boot.index] = keyFile[m], !.index = boot.index + 1]
  /\ UNCHANGED <<shared, private, node, holder, history>>

\* The key files are read in the order of the indices, whoever is there first.
Collect ==
  /\ boot.pc = "collect"
  /\ boot.index < N
  /\ keyFile[boot.index] # NoKey
  /\ boot' = [boot EXCEPT !.members[boot.index] = keyFile[boot.index], !.index = boot.index + 1]
  /\ UNCHANGED <<shared, private, node, holder, history>>

\* Mutant: the anchor is assembled from the keys that are there.
PublishAnchorEarly ==
  /\ boot.pc = "collect"
  /\ boot.index > 0
  /\ anchor' = boot.members
  /\ boot' = [BootDown EXCEPT !.pc = "done"]
  /\ UNCHANGED <<runId, keyFile, record, private, node, holder, history>>

\* Committee::new and write_atomic; the process ends.
PublishAnchor ==
  /\ boot.pc = "collect"
  /\ boot.index = N
  /\ anchor' = boot.members
  /\ boot' = [BootDown EXCEPT !.pc = "done"]
  /\ UNCHANGED <<runId, keyFile, record, private, node, holder, history>>

-----------------------------------------------------------------------------
(* A member process                                                        *)

NodeGoes(m, pc) == node' = [node EXCEPT ![m].pc = pc]

\* An assertion or an expect fails: the process ends.
Panic(m) == node' = [node EXCEPT ![m] = NodeDown]

NodeStart(m) ==
  /\ node[m].pc = "down"
  /\ NodeGoes(m, "run")
  /\ UNCHANGED <<shared, private, boot, holder, history>>

\* Mutant: the seed leaves out the run identifier.
MemberKeyWithoutRun(m, id) == [member |-> m, run |-> 1]

\* member_seed and the key generation.
MemberKey(m, id) == [member |-> m, run |-> id]

\* wait_for_run_id.
ReadRun(m) ==
  /\ node[m].pc = "run"
  /\ runId # NoRun
  /\ node' = [node EXCEPT ![m].pc = "key", ![m].key = MemberKey(m, runId)]
  /\ UNCHANGED <<shared, private, boot, holder, history>>

\* The key file is written unless there is one.
PublishKey(m) ==
  /\ node[m].pc = "key"
  /\ keyFile' = IF keyFile[m] = NoKey THEN [keyFile EXCEPT ![m] = node[m].key] ELSE keyFile
  /\ NodeGoes(m, IF Stateful THEN "counter" ELSE "anchor")
  /\ UNCHANGED <<runId, anchor, record, private, boot, holder, history>>

\* Mutant: create on every start; it refuses to overwrite live state.
OpenCounterByCreate(m) ==
  /\ node[m].pc = "counter"
  /\ \/ /\ counter[m] = NoCounter
        /\ counter' = [counter EXCEPT ![m] = [key |-> node[m].key, next |-> 0]]
        /\ NodeGoes(m, "anchor")
     \/ counter[m] # NoCounter /\ Panic(m) /\ UNCHANGED counter
  /\ UNCHANGED <<shared, mark, provisioned, boot, holder, history>>

\* create without a state file, open with one; open refuses another key's.
OpenCounter(m) ==
  /\ node[m].pc = "counter"
  /\ \/ /\ counter[m] = NoCounter
        /\ counter' = [counter EXCEPT ![m] = [key |-> node[m].key, next |-> 0]]
        /\ NodeGoes(m, "anchor")
     \/ counter[m].key = node[m].key /\ NodeGoes(m, "anchor") /\ UNCHANGED counter
     \/ counter[m].key \notin {NoKey, node[m].key} /\ Panic(m) /\ UNCHANGED counter
  /\ UNCHANGED <<shared, mark, provisioned, boot, holder, history>>

\* wait_for_committee; the anchor must name this key at this index.
ReadAnchor(m) ==
  /\ node[m].pc = "anchor"
  /\ anchor # NoAnchor
  /\ IF anchor[m] = node[m].key
     THEN node' = [node EXCEPT ![m].pc = "ready", ![m].committee = anchor]
     ELSE Panic(m)
  /\ UNCHANGED <<shared, private, boot, holder, history>>

\* A member that listens signs with its key at the counter's slot.
Sign(m) ==
  /\ node[m].pc = "ready" /\ Stateful
  /\ counter[m].next <= MaxSlot
  /\ counter' = [counter EXCEPT ![m].next = @ + 1]
  /\ spent' = spent \cup {<<node[m].key, counter[m].next>>}
  /\ UNCHANGED <<shared, mark, provisioned, procs, runs, rotated, faults>>

\* A member that listens publishes a record of its committee.
PublishRecord(m) ==
  /\ node[m].pc = "ready"
  /\ record' = node[m].committee
  /\ UNCHANGED <<runId, keyFile, anchor, private, procs, history>>

-----------------------------------------------------------------------------
(* The holder process                                                      *)

\* HOLDER_STATE_MODE is create only when the volume is new.
HolderStart ==
  /\ holder.pc = "down"
  /\ holder' = [holder EXCEPT !.pc = IF provisioned THEN "open" ELSE "create"]
  /\ provisioned' = TRUE
  /\ UNCHANGED <<shared, counter, mark, boot, node, history>>

\* wait_for_committee and build: open refuses a missing mark and one that belongs
\* to another anchor.
HolderBuild ==
  /\ holder.pc \in {"create", "open"}
  /\ anchor # NoAnchor
  /\ mark' = IF holder.pc = "create" /\ mark = NoAnchor THEN anchor ELSE mark
  /\ holder' = IF IF holder.pc = "create" THEN mark = NoAnchor ELSE mark = anchor
               THEN [pc |-> "ready", committee |-> anchor]
               ELSE HolderDown
  /\ UNCHANGED <<shared, counter, provisioned, boot, node, history>>

-----------------------------------------------------------------------------
(* Faults and the operator                                                 *)

\* A process is killed, or gives up waiting.
Die ==
  /\ Fault
  /\ \/ boot.pc \notin {"down", "done"} /\ boot' = BootDown /\ UNCHANGED <<node, holder>>
     \/ \E m \in Member : node[m].pc # "down" /\ Panic(m) /\ UNCHANGED <<boot, holder>>
     \/ holder.pc # "down" /\ holder' = HolderDown /\ UNCHANGED <<boot, node>>
  /\ UNCHANGED <<shared, private, runs, spent, rotated>>

AllDown ==
  /\ boot' = BootDown
  /\ node' = [m \in Member |-> NodeDown]
  /\ holder' = HolderDown

\* The host goes down, and a file of the shared volumes may be gone with it.
Outage ==
  /\ Fault
  /\ AllDown
  /\ \/ UNCHANGED shared
     \/ runs < MaxRuns /\ runId' = NoRun /\ UNCHANGED <<keyFile, anchor, record>>
     \/ \E m \in Member : keyFile' = [keyFile EXCEPT ![m] = NoKey] /\ UNCHANGED <<runId, anchor, record>>
     \/ anchor' = NoAnchor /\ UNCHANGED <<runId, keyFile, record>>
     \/ record' = NoAnchor /\ UNCHANGED <<runId, keyFile, anchor>>
  /\ UNCHANGED <<private, runs, spent, rotated>>

\* demo.sh down: the containers are stopped and all volumes deleted.
Down ==
  /\ Fault
  /\ runs < MaxRuns
  /\ runId' = NoRun
  /\ keyFile' = NoAnchor /\ anchor' = NoAnchor /\ record' = NoAnchor
  /\ counter' = [m \in Member |-> NoCounter]
  /\ mark' = NoAnchor /\ provisioned' = FALSE
  /\ rotated' = FALSE
  /\ AllDown
  /\ UNCHANGED <<runs, spent>>

-----------------------------------------------------------------------------
BootStep == BootStart \/ Reset \/ DrawRun \/ Collect \/ PublishAnchor
NodeStep(m) ==
  NodeStart(m) \/ ReadRun(m) \/ PublishKey(m) \/ OpenCounter(m) \/ ReadAnchor(m)
HolderStep == HolderStart \/ HolderBuild

Next ==
  \/ BootStep
  \/ \E m \in Member : NodeStep(m) \/ Sign(m) \/ PublishRecord(m)
  \/ HolderStep
  \/ Die \/ Outage \/ Down

\* Files appear well before the timeouts, which are faults here, and the operator
\* starts again whatever has stopped.
Fairness ==
  /\ WF_vars(BootStep)
  /\ \A m \in Member : WF_vars(NodeStep(m))
  /\ WF_vars(HolderStep)

Spec == Init /\ [][Next]_vars /\ Fairness

-----------------------------------------------------------------------------
(* Properties                                                              *)

\* While there is a run identifier, the shared volumes hold nothing of an earlier
\* run: every key, the anchor and the published record are of this one, through
\* deaths, lost files and resets.  The exception: a bootstrap that could not read an
\* existing identifier resets under members that live on and may write once more.
NothingStale ==
  ~rotated /\ runId # NoRun =>
    /\ \A m \in Member : keyFile[m] \in {NoKey, MemberKey(m, runId)}
    /\ \A f \in {anchor, record} : f \in {NoAnchor, [m \in Member |-> MemberKey(m, runId)]}

\* All members that are ready hold the same anchor, which names each of their keys
\* at its own index, whenever and in whatever order they came up.  A holder of an
\* anchor of the same run holds that one too; a holder may also have loaded the
\* anchor of an earlier run before the bootstrap cleared it away.  After a failed
\* read of the identifier there may be members of two runs.
OneCommittee ==
  ~rotated =>
    \A m \in Member : node[m].pc = "ready" =>
      /\ node[m].committee[m] = node[m].key
      /\ \A q \in Member : node[q].pc = "ready" => node[q].committee = node[m].committee
      /\ holder.pc = "ready" /\ holder.committee[m].run = node[m].key.run =>
           holder.committee = node[m].committee

\* Bit i names member i: every anchor and every committee in use has at each index
\* a key of that member, even one whose keys are of two runs.
IndexOrder ==
  \A f \in {anchor, record, mark, holder.committee} \cup {node[m].committee : m \in Member} :
    f = NoAnchor \/ \A m \in Member : f[m].member = m

\* A key that a member may come back with has its spent slots behind its counter,
\* through restarts and new runs, also when the committee is rotated under members
\* that go on signing.
SpentStaysSpent ==
  \A m \in Member : \A s \in spent :
    s[1] \in {MemberKey(m, runId), node[m].key} => counter[m].key = s[1] /\ s[2] < counter[m].next

\* Once nothing fails any more, everybody becomes and stays ready, except who is
\* refused: a member whose counter belongs to an earlier run, and a holder whose
\* volume was provisioned and has no mark, or the mark of another anchor.  A committee
\* that was rotated under its members waits for keys that nobody publishes.
EveryoneReady ==
  <>[](rotated \/
       /\ \A m \in Member :
            node[m].pc = "ready" \/ counter[m].key \notin {NoKey, MemberKey(m, runId)}
       /\ holder.pc = "ready" \/ (provisioned /\ mark # anchor))
=============================================================================
