--------------------------- MODULE BootstrapProofs ---------------------------
(***************************************************************************)
(* Proofs about Bootstrap, for every number of members, runs, slots and    *)
(* faults.  Bit i names member i and a key never comes back with its slots *)
(* unspent, whatever fails (SafeInv).  Unless the bootstrap took an        *)
(* existing run for none, nothing of an earlier run is left beside a run   *)
(* identifier and all members that are ready share one anchor (IInv).      *)
(*                                                                         *)
(* The argument for the first: an identifier is drawn once, so a counter   *)
(* that belongs to the member's present key has been there since that      *)
(* key's first signature.  For the second: without an identifier no member *)
(* has a key, so nothing is written while the bootstrap clears the volumes,*)
(* and with one every key in memory and in a file is derived from it.      *)
(***************************************************************************)
EXTENDS Bootstrap, TLAPS

\* The committee of a run: the key of every member derived from its identifier.
CommitteeOf(r) == [m \in Member |-> MemberKey(m, r)]

\* The anchors that are assembled of the keys of one run.
Assembled == {NoAnchor} \cup {CommitteeOf(r) : r \in Run}

\* The anchors that name at every index a key of that member.
Ordered == {f \in Anchor \cup {NoAnchor} : f = NoAnchor \/ \A m \in Member : f[m].member = m}

\* What a member process and the bootstrap keep.
NodeState == [pc : NodePhase, key : Key \cup {NoKey}, committee : Anchor \cup {NoAnchor}]
BootState == [pc : BootPhase, todo : SUBSET CommitteeFile,
              members : [Member -> Key \cup {NoKey}], index : 0 .. N]

\* What is there, is in memory or has signed belongs to a run that was drawn.
DrawnInv ==
  /\ runId <= runs
  /\ \A s \in spent : s[1].run <= runs
  /\ \A m \in Member : node[m].key.run <= runs

\* Every file holds, and the bootstrap has collected, a member's key at its index.
OrderInv ==
  /\ \A m \in Member : keyFile[m] = NoKey \/ keyFile[m].member = m
  /\ anchor \in Ordered /\ record \in Ordered /\ mark \in Ordered /\ holder.committee \in Ordered
  /\ \A m \in Member : node[m].committee \in Ordered
  /\ boot.pc # "collect" => boot.index = 0
  /\ boot.pc = "collect" =>
       \A m \in Member : m < boot.index => boot.members[m] \in Key /\ boot.members[m].member = m

\* A member past ReadRun has a key of its own, and past OpenCounter its counter
\* belongs to that key.
KeyInv ==
  \A m \in Member :
    /\ node[m].pc \in {"down", "run"} => node[m].key = NoKey
    /\ node[m].pc \notin {"down", "run"} => node[m].key \in Key /\ node[m].key.member = m
    /\ Stateful /\ node[m].pc \in {"anchor", "ready"} => counter[m].key = node[m].key

\* What holds also when the committee is rotated under live members.
SafeInv == TypeOK /\ DrawnInv /\ OrderInv /\ KeyInv /\ SpentStaysSpent

\* The bootstrap clears and draws without an identifier, and collects with one.
RunInv ==
  /\ boot.pc \in {"reset", "draw"} => runId = NoRun
  /\ boot.pc \in {"collect", "done"} => runId # NoRun

\* Whatever the committee volume still holds was listed, and before an identifier is
\* drawn the shared volumes are empty.
ClearedInv ==
  /\ boot.pc = "reset" => \A m \in Member : keyFile[m] # NoKey => m \in boot.todo
  /\ boot.pc = "reset" => anchor = NoAnchor \/ AnchorFile \in boot.todo
  /\ boot.pc = "draw" => keyFile = NoAnchor /\ anchor = NoAnchor /\ record = NoAnchor

\* The keys that were collected are those of this run.
CollectInv ==
  boot.pc = "collect" => \A m \in Member : m < boot.index => boot.members[m] = MemberKey(m, runId)

\* A member has a key only while there is an identifier, and it is derived from that
\* one.
NodeInv ==
  \A m \in Member :
    /\ node[m].pc \notin {"down", "run"} => runId # NoRun /\ node[m].key = MemberKey(m, runId)
    /\ node[m].pc = "ready" => node[m].committee = CommitteeOf(runId)

\* The anchor, also one that the holder loaded in an earlier run, is a whole one.
AnchorInv == anchor \in Assembled /\ holder.committee \in Assembled

\* What the shared volumes hold beside an identifier is of its run.
CleanInv ==
  runId # NoRun =>
    /\ \A m \in Member : keyFile[m] \in {NoKey, MemberKey(m, runId)}
    /\ anchor \in {NoAnchor, CommitteeOf(runId)} /\ record \in {NoAnchor, CommitteeOf(runId)}

\* What holds until an existing run is taken for none.
IInv ==
  /\ SafeInv /\ RunInv /\ ClearedInv /\ CollectInv /\ NodeInv /\ AnchorInv
  /\ CleanInv

-----------------------------------------------------------------------------
(* Facts about the definitions                                             *)

\* The indices, and where the bounds come from.
LEMMA Indices ==
  /\ Member \subseteq Nat /\ Member \subseteq Int
  /\ \A i \in 0 .. N : i < N => i \in Member /\ i + 1 \in 0 .. N
  /\ \A m \in Member : m < N /\ m \in 0 .. N
  /\ 0 \in 0 .. N /\ 0 \in Member
BY SizeAssumption DEF Member

\* A key tells its member and its run, and is never the absent key.
LEMMA KeyFacts ==
  /\ NoKey \notin Key
  /\ NoKey.run = NoRun
  /\ \A m \in Member, r \in Run : MemberKey(m, r) \in Key /\ MemberKey(m, r) # NoKey
  /\ \A m \in Member : MemberKey(m, NoRun) \notin Key
  /\ \A m, r : MemberKey(m, r).member = m /\ MemberKey(m, r).run = r
BY SizeAssumption, BoundAssumption DEF Key, NoKey, MemberKey, Member, Run, NoRun

\* A committee is an anchor, names its run everywhere, and is never the absent one.
LEMMA CommitteeFacts ==
  /\ NoAnchor \in [Member -> Key \cup {NoKey}] /\ NoAnchor \in Ordered
  /\ \A m \in Member : NoAnchor[m] = NoKey
  /\ \A r \in Run : CommitteeOf(r) \in Anchor /\ CommitteeOf(r) # NoAnchor
  /\ \A r : \A m \in Member : CommitteeOf(r)[m] = MemberKey(m, r)
<1>1. \A r : \A m \in Member : CommitteeOf(r)[m] = MemberKey(m, r)
  BY DEF CommitteeOf
<1>2. \A r \in Run : CommitteeOf(r) \in Anchor
  BY KeyFacts DEF CommitteeOf, Anchor
<1>3. NoAnchor[0] = NoKey /\ \A r \in Run : CommitteeOf(r)[0] # NoKey
  BY <1>1, Indices, KeyFacts DEF NoAnchor
<1> QED BY <1>1, <1>2, <1>3 DEF NoAnchor, Ordered

\* The values of a process that is down.
LEMMA DownFacts ==
  /\ BootDown.pc = "down" /\ BootDown.todo = {} /\ BootDown.members = NoAnchor /\ BootDown.index = 0
  /\ BootDown \in BootState
  /\ NodeDown.pc = "down" /\ NodeDown.key = NoKey /\ NodeDown.committee = NoAnchor
  /\ NodeDown \in NodeState
  /\ HolderDown.pc = "down" /\ HolderDown.committee = NoAnchor
  /\ HolderDown \in [pc : HolderPhase, committee : Anchor \cup {NoAnchor}]
BY CommitteeFacts, Indices
   DEF BootDown, NodeDown, HolderDown, BootPhase, NodePhase, HolderPhase, NodeState, BootState

\* What a bootstrap keeps that has just started.
LEMMA BootFields ==
  ASSUME NEW p, NEW t
  PROVE  /\ [BootDown EXCEPT !.pc = p].pc = p /\ [BootDown EXCEPT !.pc = p].index = 0
         /\ [BootDown EXCEPT !.pc = p, !.todo = t].pc = p
         /\ [BootDown EXCEPT !.pc = p, !.todo = t].todo = t
         /\ [BootDown EXCEPT !.pc = p, !.todo = t].index = 0
BY DEF BootDown

\* No run comes before the first.
LEMMA RunsFacts == TypeOK => runs \in Nat /\ NoRun <= runs
BY BoundAssumption DEF TypeOK, NoRun

-----------------------------------------------------------------------------
(* The actions                                                             *)

\* Starting changes only the bootstrap's own phase.
LEMMA BootStartSafe ==
  ASSUME SafeInv, BootStart
  PROVE  SafeInv'
<1> USE Indices, KeyFacts, CommitteeFacts, DownFacts
    DEF BootStart, SafeInv, shared, private, procs, history
<1>a. \/ boot' = [BootDown EXCEPT !.pc = "collect"] \/ BeginReset
  OBVIOUS
<1>b. boot'.index = 0 /\ boot'.pc \in {"collect", "reset"}
  <2>1. CASE boot' = [BootDown EXCEPT !.pc = "collect"]
    BY ONLY <2>1, BootFields, Zenon
  <2>2. CASE boot' = [BootDown EXCEPT !.pc = "reset", !.todo = Present]
    BY ONLY <2>2, BootFields, Zenon
  <2> QED BY <1>a, <2>1, <2>2 DEF BeginReset
<1>1. TypeOK'
  <2>1. Present \in SUBSET CommitteeFile
    BY DEF Present, CommitteeFile
  <2>2. boot' \in BootState
    <3>1. CASE boot' = [BootDown EXCEPT !.pc = "collect"]
      BY <3>1 DEF BootState, BootPhase
    <3>2. CASE BeginReset
      BY <2>1, <3>2 DEF BeginReset, BootState, BootPhase
    <3> QED BY <3>1, <3>2
  <2>3. faults' \in 0 .. MaxFaults
    BY BoundAssumption DEF TypeOK, Fault
  <2>4. rotated' \in BOOLEAN
    BY Zenon DEF TypeOK
  <2> QED BY <2>2, <2>3, <2>4 DEF TypeOK, BootState
<1>2. DrawnInv'
  BY DEF TypeOK, DrawnInv
<1>3. OrderInv'
  BY <1>b DEF OrderInv, Member
<1>4. KeyInv'
  BY DEF TypeOK, KeyInv
<1>5. SpentStaysSpent'
  BY DEF TypeOK, SpentStaysSpent
<1> QED BY <1>1, <1>2, <1>3, <1>4, <1>5

\* BootStart resets only where there is no run, unless it fails to read the identifier.
LEMMA BootStartStep ==
  ASSUME IInv, BootStart, ~rotated'
  PROVE  IInv'
<1> USE Indices, KeyFacts, CommitteeFacts, DownFacts
    DEF BootStart, IInv, SafeInv, shared, private, procs, history
<1>s. SafeInv'
  BY BootStartSafe
<1>a. \/ runId # NoRun /\ boot' = [BootDown EXCEPT !.pc = "collect"]
      \/ runId = NoRun /\ BeginReset
  OBVIOUS
<1>b. \/ runId # NoRun /\ boot'.pc = "collect" /\ boot'.index = 0
      \/ runId = NoRun /\ boot'.pc = "reset" /\ boot'.todo = Present
  <2>1. CASE runId # NoRun /\ boot' = [BootDown EXCEPT !.pc = "collect"]
    BY ONLY <2>1, BootFields, Zenon
  <2>2. CASE runId = NoRun /\ boot' = [BootDown EXCEPT !.pc = "reset", !.todo = Present]
    BY ONLY <2>2, BootFields, Zenon
  <2> QED BY <1>a, <2>1, <2>2 DEF BeginReset
<1>1. RunInv'
  BY <1>b DEF RunInv
<1>2. ClearedInv'
  <2>1. /\ \A m \in Member : keyFile[m] # NoKey => m \in Present
        /\ anchor = NoAnchor \/ AnchorFile \in Present
    BY DEF Present
  <2> QED BY <1>b, <2>1 DEF ClearedInv
<1>3. CollectInv'
  BY <1>b DEF CollectInv, Member
<1>4. NodeInv'
  BY DEF TypeOK, NodeInv
<1>5. AnchorInv'
  BY DEF TypeOK, AnchorInv, Assembled
<1>6. CleanInv'
  BY DEF TypeOK, CleanInv
<1> QED BY <1>s, <1>1, <1>2, <1>3, <1>4, <1>5, <1>6

\* Removing files leaves what remains in order.
LEMMA ResetSafe ==
  ASSUME SafeInv, Reset
  PROVE  SafeInv'
<1> USE Indices, KeyFacts, CommitteeFacts, DownFacts
    DEF Reset, SafeInv, shared, private, procs, history
<1>a. keyFile' \in [Member -> Key \cup {NoKey}]
      /\ \A m \in Member : keyFile'[m] \in {keyFile[m], NoKey}
  BY DEF TypeOK
<1>b. anchor' \in {anchor, NoAnchor} /\ record' \in {record, NoAnchor} /\ runId' \in {runId, NoRun}
  OBVIOUS
<1>c. /\ boot'.index = boot.index /\ boot'.members = boot.members
      /\ boot'.pc \in {"reset", "draw"} /\ boot' \in BootState
  <2>1. boot \in BootState
    BY DEF TypeOK, BootState
  <2>2. CASE boot' = [boot EXCEPT !.pc = "draw"]
    BY <2>1, <2>2 DEF BootState, BootPhase
  <2>3. ASSUME NEW f, boot' = [boot EXCEPT !.todo = @ \ {f}]
        PROVE  /\ boot'.index = boot.index /\ boot'.members = boot.members
               /\ boot'.pc \in {"reset", "draw"} /\ boot' \in BootState
    BY <2>1, <2>3 DEF BootState
  <2> QED BY <2>2, <2>3
<1>1. TypeOK'
  BY <1>a, <1>b, <1>c DEF TypeOK, BootState
<1>2. DrawnInv'
  BY <1>b, RunsFacts DEF DrawnInv
<1>3. OrderInv'
  BY <1>a, <1>b, <1>c DEF OrderInv, Ordered
<1>4. KeyInv'
  BY DEF TypeOK, KeyInv
<1>5. SpentStaysSpent'
  <2>1. \A s \in spent : s[1] \in Key
    BY DEF TypeOK
  <2> QED BY <1>b, <2>1 DEF SpentStaysSpent
<1> QED BY <1>1, <1>2, <1>3, <1>4, <1>5

\* Nobody holds a key while there is no identifier, so what is cleared stays clear.
LEMMA ResetStep ==
  ASSUME IInv, Reset
  PROVE  IInv'
<1> USE Indices, KeyFacts, CommitteeFacts, DownFacts
    DEF Reset, IInv, SafeInv, shared, private, procs, history
<1>s. SafeInv'
  BY ResetSafe
<1>a. \A m \in Member : keyFile'[m] \in {keyFile[m], NoKey}
  BY DEF TypeOK
<1>b. runId = NoRun /\ runId' = NoRun
  BY DEF RunInv
<1>c. boot'.pc \in {"reset", "draw"}
  BY DEF TypeOK
<1>1. RunInv'
  BY <1>b, <1>c DEF RunInv
<1>2. ClearedInv'
  <2>1. CASE /\ boot.todo = {} /\ boot' = [boot EXCEPT !.pc = "draw"]
             /\ record' = NoAnchor /\ UNCHANGED <<keyFile, anchor>>
    <3>1. \A m \in Member : keyFile[m] = NoKey
      BY <2>1 DEF ClearedInv
    <3>2. keyFile = NoAnchor
      BY <3>1 DEF TypeOK, NoAnchor
    <3>3. anchor = NoAnchor /\ boot'.pc = "draw"
      BY <2>1 DEF ClearedInv, TypeOK
    <3> QED BY <2>1, <3>2, <3>3 DEF ClearedInv
  <2>2. CASE boot.todo # {} \/ record' # NoAnchor \/ boot' # [boot EXCEPT !.pc = "draw"]
             \/ keyFile' # keyFile \/ anchor' # anchor
    <3>1. PICK f \in boot.todo \cup Present :
            /\ boot' = [boot EXCEPT !.todo = @ \ {f}]
            /\ anchor' = IF f = AnchorFile THEN NoAnchor ELSE anchor
            /\ keyFile' = [m \in Member |-> IF m = f THEN NoKey ELSE keyFile[m]]
      BY <2>2
    <3>2. boot'.todo = boot.todo \ {f} /\ boot'.pc = "reset"
      BY <3>1 DEF TypeOK
    <3> QED BY <3>1, <3>2 DEF ClearedInv
  <2> QED BY <2>1, <2>2
<1>3. CollectInv'
  BY <1>c DEF CollectInv
<1>4. NodeInv'
  BY <1>b DEF NodeInv
<1>5. AnchorInv'
  BY DEF TypeOK, AnchorInv, Assembled
<1>6. CleanInv'
  BY <1>b DEF CleanInv
<1> QED BY <1>s, <1>1, <1>2, <1>3, <1>4, <1>5, <1>6

\* A new identifier has no spent slot of its own, whoever still signs with an older key.
LEMMA DrawRunSafe ==
  ASSUME SafeInv, DrawRun
  PROVE  SafeInv'
<1> USE Indices, KeyFacts, CommitteeFacts, DownFacts
    DEF DrawRun, SafeInv, shared, private, procs, history
<1>1. TypeOK'
  <2>1. runs + 1 \in Run /\ runs + 1 \in 0 .. MaxRuns
    BY BoundAssumption DEF TypeOK, Run
  <2>2. boot' \in BootState
    BY DEF TypeOK, BootState, BootPhase
  <2> QED BY <2>1, <2>2 DEF TypeOK, BootState
<1>2. DrawnInv'
  <2>1. runs \in Nat /\ \A s \in spent : s[1].run \in Nat
    BY BoundAssumption DEF TypeOK, Key, Run
  <2>2. \A m \in Member : node[m].key.run \in Nat
    BY BoundAssumption DEF TypeOK, Key, NoKey, Run, NoRun
  <2> QED BY <2>1, <2>2 DEF DrawnInv
<1>3. OrderInv'
  <2>1. boot'.index = 0
    BY DEF TypeOK, OrderInv
  <2> QED BY <2>1 DEF Member, OrderInv
<1>4. KeyInv'
  BY DEF TypeOK, KeyInv
<1>5. SpentStaysSpent'
  <2>1. runs \in Nat /\ \A s \in spent : s[1] \in Key /\ s[1].run \in Nat
    BY BoundAssumption DEF TypeOK, Key, Run
  <2>2. \A m \in Member, s \in spent : s[1] # MemberKey(m, runs + 1)
    BY <2>1 DEF DrawnInv
  <2> QED BY <2>1, <2>2 DEF SpentStaysSpent
<1> QED BY <1>1, <1>2, <1>3, <1>4, <1>5

\* A new identifier finds empty volumes, no member with a key and no spent slot of its own.
LEMMA DrawRunStep ==
  ASSUME IInv, DrawRun
  PROVE  IInv'
<1> USE Indices, KeyFacts, CommitteeFacts, DownFacts
    DEF DrawRun, IInv, SafeInv, shared, private, procs, history
<1>s. SafeInv'
  BY DrawRunSafe
<1>1. RunInv'
  <2>1. boot'.pc = "collect" /\ runs + 1 # NoRun
    BY BoundAssumption DEF TypeOK, NoRun
  <2> QED BY <2>1 DEF RunInv
<1>2. ClearedInv'
  BY DEF TypeOK, ClearedInv
<1>3. CollectInv'
  <2>1. boot'.index = 0
    BY DEF TypeOK, OrderInv
  <2> QED BY <2>1 DEF Member, CollectInv
<1>4. NodeInv'
  <2>1. \A m \in Member : node[m].pc \in {"down", "run"}
    BY DEF RunInv, NodeInv
  <2> QED BY <2>1 DEF NodeInv
<1>5. AnchorInv'
  BY DEF TypeOK, AnchorInv, Assembled
<1>6. CleanInv'
  <2>1. keyFile = NoAnchor /\ anchor = NoAnchor /\ record = NoAnchor
    BY DEF ClearedInv
  <2> QED BY <2>1 DEF CleanInv
<1> QED BY <1>s, <1>1, <1>2, <1>3, <1>4, <1>5, <1>6

\* The key file at an index holds a key of that member.
LEMMA CollectSafe ==
  ASSUME SafeInv, Collect
  PROVE  SafeInv'
<1> USE Indices, KeyFacts, CommitteeFacts, DownFacts
    DEF Collect, SafeInv, shared, private, procs, history
<1>1. TypeOK'
  BY DEF TypeOK, BootPhase, NodePhase, HolderPhase
<1>2. DrawnInv'
  BY DEF TypeOK, DrawnInv
<1>3. OrderInv'
  <2>1. boot.index \in Member /\ keyFile[boot.index] \in Key
        /\ keyFile[boot.index].member = boot.index
    BY DEF TypeOK, OrderInv
  <2>2. boot'.index = boot.index + 1 /\ boot'.pc = "collect"
        /\ boot'.members = [boot.members EXCEPT ![boot.index] = keyFile[boot.index]]
    BY DEF TypeOK
  <2>3. ASSUME NEW m \in Member, m < boot.index + 1
        PROVE  boot'.members[m] \in Key /\ boot'.members[m].member = m
    <3>1. m = boot.index \/ m < boot.index
      BY <2>1, <2>3
    <3> QED BY <2>1, <2>2, <3>1 DEF TypeOK, OrderInv
  <2> QED BY <2>2, <2>3 DEF OrderInv
<1>4. KeyInv'
  BY DEF TypeOK, KeyInv
<1>5. SpentStaysSpent'
  BY DEF TypeOK, SpentStaysSpent
<1> QED BY <1>1, <1>2, <1>3, <1>4, <1>5

\* The key file at an index holds the key of that member and this run.
LEMMA CollectStep ==
  ASSUME IInv, Collect
  PROVE  IInv'
<1> USE Indices, KeyFacts, CommitteeFacts, DownFacts
    DEF Collect, IInv, SafeInv, shared, private, procs, history
<1>s. SafeInv'
  BY CollectSafe
<1>1. RunInv'
  BY DEF TypeOK, RunInv
<1>2. ClearedInv'
  BY DEF TypeOK, ClearedInv
<1>3. CollectInv'
  <2>1. boot.index \in Member /\ keyFile[boot.index] = MemberKey(boot.index, runId)
    BY DEF TypeOK, RunInv, CleanInv
  <2>2. boot'.index = boot.index + 1 /\ boot'.pc = "collect"
        /\ boot'.members = [boot.members EXCEPT ![boot.index] = keyFile[boot.index]]
    BY DEF TypeOK
  <2>3. ASSUME NEW m \in Member, m < boot.index + 1
        PROVE  boot'.members[m] = MemberKey(m, runId)
    <3>1. m = boot.index \/ m < boot.index
      BY <2>1, <2>3
    <3> QED BY <2>1, <2>2, <3>1 DEF TypeOK, CollectInv
  <2> QED BY <2>2, <2>3 DEF CollectInv
<1>4. NodeInv'
  BY DEF TypeOK, NodeInv
<1>5. AnchorInv'
  BY DEF TypeOK, AnchorInv, Assembled
<1>6. CleanInv'
  BY DEF TypeOK, CleanInv
<1> QED BY <1>s, <1>1, <1>2, <1>3, <1>4, <1>5, <1>6

\* With all keys collected, the anchor has a key at every index.
LEMMA PublishAnchorSafe ==
  ASSUME SafeInv, PublishAnchor
  PROVE  SafeInv'
<1> USE Indices, KeyFacts, CommitteeFacts, DownFacts
    DEF PublishAnchor, SafeInv, shared, private, procs, history
<1>0. boot.members \in Anchor /\ \A m \in Member : boot.members[m].member = m
  BY DEF TypeOK, OrderInv, Anchor
<1>1. TypeOK'
  <2>1. boot' \in BootState
    BY DEF BootState, BootPhase
  <2> QED BY <1>0, <2>1 DEF TypeOK, BootState
<1>2. DrawnInv'
  BY DEF TypeOK, DrawnInv
<1>3. OrderInv'
  <2>1. boot'.index = 0 /\ boot'.pc = "done"
    OBVIOUS
  <2> QED BY <1>0, <2>1 DEF OrderInv, Ordered
<1>4. KeyInv'
  BY DEF TypeOK, KeyInv
<1>5. SpentStaysSpent'
  BY DEF TypeOK, SpentStaysSpent
<1> QED BY <1>1, <1>2, <1>3, <1>4, <1>5

\* With all keys collected, the anchor is the committee of this run.
LEMMA PublishAnchorStep ==
  ASSUME IInv, PublishAnchor
  PROVE  IInv'
<1> USE Indices, KeyFacts, CommitteeFacts, DownFacts
    DEF PublishAnchor, IInv, SafeInv, shared, private, procs, history
<1>s. SafeInv'
  BY PublishAnchorSafe
<1>0. runId \in Run /\ boot.members = CommitteeOf(runId)
  <2>1. runId \in Run /\ boot.members \in [Member -> Key \cup {NoKey}]
    BY DEF TypeOK, RunInv
  <2>2. \A m \in Member : boot.members[m] = MemberKey(m, runId)
    BY DEF CollectInv
  <2> QED BY <2>1, <2>2 DEF CommitteeOf
<1>1. RunInv'
  BY DEF TypeOK, RunInv
<1>2. ClearedInv'
  BY DEF TypeOK, ClearedInv
<1>3. CollectInv'
  BY DEF TypeOK, CollectInv
<1>4. NodeInv'
  BY DEF TypeOK, NodeInv
<1>5. AnchorInv'
  BY <1>0 DEF AnchorInv, Assembled
<1>6. CleanInv'
  BY <1>0 DEF CleanInv
<1> QED BY <1>s, <1>1, <1>2, <1>3, <1>4, <1>5, <1>6

\* A member that starts has no key yet.
LEMMA NodeStartSafe ==
  ASSUME SafeInv, NEW q \in Member, NodeStart(q)
  PROVE  SafeInv'
<1> USE Indices, KeyFacts, CommitteeFacts, DownFacts
    DEF NodeStart, NodeGoes, SafeInv, shared, private, procs, history
<1>1. TypeOK'
  <2>1. node[q] \in NodeState /\ [node[q] EXCEPT !.pc = "run"] \in NodeState
    <3>1. node[q] \in NodeState
      BY DEF TypeOK, NodeState
    <3>2. "run" \in NodePhase
      BY DEF NodePhase
    <3>3. [node[q] EXCEPT !.pc = "run"] \in NodeState
      BY ONLY <3>1, <3>2 DEF NodeState
    <3> QED BY <3>1, <3>3
  <2>2. node' \in [Member -> NodeState]
    BY <2>1 DEF TypeOK, NodeState
  <2> QED BY <2>2 DEF TypeOK, NodeState
<1>2. DrawnInv'
  BY DEF TypeOK, DrawnInv
<1>3. OrderInv'
  BY DEF TypeOK, OrderInv
<1>4. KeyInv'
  BY DEF TypeOK, KeyInv
<1>5. SpentStaysSpent'
  BY DEF TypeOK, SpentStaysSpent
<1> QED BY <1>1, <1>2, <1>3, <1>4, <1>5

\* NodeStart keeps what holds where the run identifier can be read.
LEMMA NodeStartStep ==
  ASSUME IInv, NEW q \in Member, NodeStart(q)
  PROVE  IInv'
<1> USE Indices, KeyFacts, CommitteeFacts, DownFacts
    DEF NodeStart, NodeGoes, IInv, SafeInv, shared, private, procs, history
<1>s. SafeInv'
  BY NodeStartSafe
<1>1. RunInv'
  BY DEF TypeOK, RunInv
<1>2. ClearedInv'
  BY DEF TypeOK, ClearedInv
<1>3. CollectInv'
  BY DEF TypeOK, CollectInv
<1>4. NodeInv'
  BY DEF TypeOK, NodeInv
<1>5. AnchorInv'
  BY DEF TypeOK, AnchorInv, Assembled
<1>6. CleanInv'
  BY DEF TypeOK, CleanInv
<1> QED BY <1>s, <1>1, <1>2, <1>3, <1>4, <1>5, <1>6

\* The key is the member's own, of a run that was drawn.
LEMMA ReadRunSafe ==
  ASSUME SafeInv, NEW q \in Member, ReadRun(q)
  PROVE  SafeInv'
<1> USE Indices, KeyFacts, CommitteeFacts, DownFacts
    DEF ReadRun, SafeInv, shared, private, procs, history
<1>1. TypeOK'
  <2>0. node[q] \in NodeState /\ MemberKey(q, runId) \in Key
    BY DEF TypeOK, NodeState
  <2>1. [node[q] EXCEPT !.pc = "key", !.key = MemberKey(q, runId)] \in NodeState
    BY <2>0 DEF NodeState, NodePhase
  <2>2. node' \in [Member -> NodeState]
    BY <2>1 DEF TypeOK, NodeState
  <2> QED BY <2>2 DEF TypeOK, NodeState
<1>2. DrawnInv'
  <2>1. \A m \in Member : node'[m].key = node[m].key \/ node'[m].key = MemberKey(m, runId)
    BY DEF TypeOK
  <2>2. \A m \in Member : MemberKey(m, runId).run = runId
    BY DEF MemberKey
  <2>3. \A m \in Member : node'[m].key.run = node[m].key.run \/ node'[m].key.run = runId
    BY ONLY <2>1, <2>2, Zenon
  <2>4. DrawnInv /\ UNCHANGED <<runId, runs, spent>>
    OBVIOUS
  <2> QED BY ONLY <2>3, <2>4, Zenon DEF DrawnInv
<1>3. OrderInv'
  BY DEF TypeOK, OrderInv
<1>4. KeyInv'
  BY DEF TypeOK, KeyInv
<1>5. SpentStaysSpent'
  BY DEF TypeOK, SpentStaysSpent
<1> QED BY <1>1, <1>2, <1>3, <1>4, <1>5

\* The key is derived from the identifier that is there.
LEMMA ReadRunStep ==
  ASSUME IInv, NEW q \in Member, ReadRun(q)
  PROVE  IInv'
<1> USE Indices, KeyFacts, CommitteeFacts, DownFacts
    DEF ReadRun, IInv, SafeInv, shared, private, procs, history
<1>s. SafeInv'
  BY ReadRunSafe
<1>1. RunInv'
  BY DEF TypeOK, RunInv
<1>2. ClearedInv'
  BY DEF TypeOK, ClearedInv
<1>3. CollectInv'
  BY DEF TypeOK, CollectInv
<1>4. NodeInv'
  BY DEF TypeOK, NodeInv
<1>5. AnchorInv'
  BY DEF TypeOK, AnchorInv, Assembled
<1>6. CleanInv'
  BY DEF TypeOK, CleanInv
<1> QED BY <1>s, <1>1, <1>2, <1>3, <1>4, <1>5, <1>6

\* A member writes its own key at its own index.
LEMMA PublishKeySafe ==
  ASSUME SafeInv, NEW q \in Member, PublishKey(q)
  PROVE  SafeInv'
<1> USE Indices, KeyFacts, CommitteeFacts, DownFacts
    DEF PublishKey, NodeGoes, SafeInv, shared, private, procs, history
<1>1. TypeOK'
  <2>0. node[q] \in NodeState
    BY DEF TypeOK, NodeState
  <2>1. \A p \in NodePhase : [node[q] EXCEPT !.pc = p] \in NodeState
    BY <2>0 DEF NodeState
  <2>2. node' \in [Member -> NodeState]
    BY <2>1 DEF TypeOK, NodeState, NodePhase
  <2>3. keyFile' \in [Member -> Key \cup {NoKey}]
    BY DEF TypeOK
  <2> QED BY <2>2, <2>3 DEF TypeOK, NodeState
<1>2. DrawnInv'
  BY DEF TypeOK, DrawnInv
<1>3. OrderInv'
  <2>1. \A m \in Member : keyFile'[m] \in {keyFile[m], node[m].key}
    BY DEF TypeOK
  <2>2. \A m \in Member : m = q \/ keyFile'[m] = keyFile[m]
    BY DEF TypeOK
  <2>3. node[q].key.member = q
    BY DEF KeyInv
  <2>4. \A m \in Member : node'[m].committee = node[m].committee
    BY DEF TypeOK
  <2> QED BY <2>1, <2>2, <2>3, <2>4 DEF OrderInv
<1>4. KeyInv'
  BY DEF TypeOK, KeyInv
<1>5. SpentStaysSpent'
  BY DEF TypeOK, SpentStaysSpent
<1> QED BY <1>1, <1>2, <1>3, <1>4, <1>5

\* The key file is this run's, whether it was there or is written now.
LEMMA PublishKeyStep ==
  ASSUME IInv, NEW q \in Member, PublishKey(q)
  PROVE  IInv'
<1> USE Indices, KeyFacts, CommitteeFacts, DownFacts
    DEF PublishKey, NodeGoes, IInv, SafeInv, shared, private, procs, history
<1>s. SafeInv'
  BY PublishKeySafe
<1>0. runId # NoRun /\ node[q].key = MemberKey(q, runId)
  BY DEF NodeInv
<1>1. RunInv'
  BY DEF TypeOK, RunInv
<1>2. ClearedInv'
  BY <1>0 DEF RunInv, ClearedInv
<1>3. CollectInv'
  BY DEF TypeOK, CollectInv
<1>4. NodeInv'
  BY DEF TypeOK, NodeInv
<1>5. AnchorInv'
  BY DEF TypeOK, AnchorInv, Assembled
<1>6. CleanInv'
  <2>1. \A m \in Member : keyFile'[m] \in {keyFile[m], MemberKey(m, runId)}
    BY <1>0 DEF TypeOK
  <2> QED BY <2>1 DEF CleanInv
<1> QED BY <1>s, <1>1, <1>2, <1>3, <1>4, <1>5, <1>6

\* A counter is created only for a key that has never signed.
LEMMA OpenCounterSafe ==
  ASSUME SafeInv, NEW q \in Member, OpenCounter(q)
  PROVE  SafeInv'
<1> USE Indices, KeyFacts, CommitteeFacts, DownFacts
    DEF OpenCounter, NodeGoes, Panic, SafeInv, shared, private, procs, history
<1>0. node[q].key \in Key /\ node[q].key # NoKey
  BY DEF KeyInv
<1>a. \/ node' = [node EXCEPT ![q].pc = "anchor"] /\ counter'[q].key = node[q].key
      \/ node' = [node EXCEPT ![q] = NodeDown]
  BY DEF TypeOK
<1>b. \A m \in Member : counter'[m] = counter[m] \/ (counter[m] = NoCounter /\ m = q)
  BY DEF TypeOK
<1>c. NoCounter.key = NoKey
  BY DEF NoCounter
<1>1. TypeOK'
  <2>1. [key |-> node[q].key, next |-> 0] \in Counter
    BY <1>0, BoundAssumption DEF Counter
  <2>2. counter' \in [Member -> Counter \cup {NoCounter}]
    <3>1. counter' = counter \/ counter' = [counter EXCEPT ![q] = [key |-> node[q].key, next |-> 0]]
      OBVIOUS
    <3>2. counter \in [Member -> Counter \cup {NoCounter}]
      BY DEF TypeOK
    <3> QED BY ONLY <2>1, <3>1, <3>2
  <2>3. [node[q] EXCEPT !.pc = "anchor"] \in NodeState /\ NodeDown \in NodeState
    <3>1. node[q] \in NodeState
      BY DEF TypeOK, NodeState
    <3>2. "anchor" \in NodePhase
      BY DEF NodePhase
    <3>3. [node[q] EXCEPT !.pc = "anchor"] \in NodeState
      BY ONLY <3>1, <3>2 DEF NodeState
    <3> QED BY <3>3, DownFacts
  <2>4. node' \in [Member -> NodeState]
    <3>1. CASE node' = [node EXCEPT ![q].pc = "anchor"]
      BY <2>3, <3>1 DEF TypeOK, NodeState
    <3>2. CASE node' = [node EXCEPT ![q] = NodeDown]
      BY <2>3, <3>2 DEF TypeOK, NodeState
    <3> QED BY <1>a, <3>1, <3>2
  <2> QED BY <2>2, <2>4 DEF TypeOK, NodeState
<1>2. DrawnInv'
  <2>1. \A m \in Member : node'[m].key \in {node[m].key, NoKey}
    <3>1. CASE node' = [node EXCEPT ![q].pc = "anchor"]
      BY <3>1 DEF TypeOK
    <3>2. CASE node' = [node EXCEPT ![q] = NodeDown]
      BY <3>2 DEF TypeOK
    <3> QED BY <1>a, <3>1, <3>2
  <2> QED BY <2>1, RunsFacts DEF DrawnInv
<1>3. OrderInv'
  <2>1. \A m \in Member : node'[m].committee \in {node[m].committee, NoAnchor}
    <3>1. CASE node' = [node EXCEPT ![q].pc = "anchor"]
      BY <3>1 DEF TypeOK
    <3>2. CASE node' = [node EXCEPT ![q] = NodeDown]
      BY <3>2 DEF TypeOK
    <3> QED BY <1>a, <3>1, <3>2
  <2> QED BY <2>1 DEF OrderInv
<1>4. KeyInv'
  <2> SUFFICES ASSUME NEW m \in Member PROVE KeyInv!(m)'
    BY DEF KeyInv
  <2>1. CASE m # q
    <3>1. node'[m] = node[m]
      BY <1>a, <2>1 DEF TypeOK
    <3> QED BY <1>b, <2>1, <3>1 DEF KeyInv
  <2>2. CASE m = q
    BY <1>0, <1>a, <2>2 DEF TypeOK, KeyInv
  <2> QED BY <2>1, <2>2
<1>5. SpentStaysSpent'
  <2> SUFFICES ASSUME NEW m \in Member, NEW s \in spent,
                      s[1] \in {MemberKey(m, runId), node'[m].key}
               PROVE  counter'[m].key = s[1] /\ s[2] < counter'[m].next
    BY DEF SpentStaysSpent
  <2>1. s[1] \in Key
    BY DEF TypeOK
  <2>2. node'[m].key \in {node[m].key, NoKey}
    <3>1. CASE m # q
      BY <1>a, <3>1 DEF TypeOK
    <3>2. CASE m = q
      BY <1>a, <3>2 DEF TypeOK
    <3> QED BY <3>1, <3>2
  <2>3. counter[m].key = s[1] /\ s[2] < counter[m].next
    BY <2>1, <2>2 DEF SpentStaysSpent
  <2> QED BY <1>b, <1>c, <2>1, <2>3
<1> QED BY <1>1, <1>2, <1>3, <1>4, <1>5

\* OpenCounter keeps what holds where the run identifier can be read.
LEMMA OpenCounterStep ==
  ASSUME IInv, NEW q \in Member, OpenCounter(q)
  PROVE  IInv'
<1> USE Indices, KeyFacts, CommitteeFacts, DownFacts
    DEF OpenCounter, NodeGoes, Panic, IInv, SafeInv, shared, private, procs, history
<1>s. SafeInv'
  BY OpenCounterSafe
<1>a. \/ node' = [node EXCEPT ![q].pc = "anchor"]
      \/ node' = [node EXCEPT ![q] = NodeDown]
  BY DEF TypeOK
<1>1. RunInv'
  BY DEF TypeOK, RunInv
<1>2. ClearedInv'
  BY DEF TypeOK, ClearedInv
<1>3. CollectInv'
  BY DEF TypeOK, CollectInv
<1>4. NodeInv'
  <2>1. \A m \in Member :
          \/ node'[m].pc = "down"
          \/ /\ node'[m].key = node[m].key
             /\ node'[m].pc = "ready" =>
                  node[m].pc = "ready" /\ node'[m].committee = node[m].committee
             /\ node'[m].pc \notin {"down", "run"} => node[m].pc \notin {"down", "run"}
    BY <1>a DEF TypeOK
  <2> QED BY <2>1 DEF NodeInv
<1>5. AnchorInv'
  BY DEF TypeOK, AnchorInv, Assembled
<1>6. CleanInv'
  BY DEF TypeOK, CleanInv
<1> QED BY <1>s, <1>1, <1>2, <1>3, <1>4, <1>5, <1>6

\* A member that is not named by the anchor ends.
LEMMA ReadAnchorSafe ==
  ASSUME SafeInv, NEW q \in Member, ReadAnchor(q)
  PROVE  SafeInv'
<1> USE Indices, KeyFacts, CommitteeFacts, DownFacts
    DEF ReadAnchor, Panic, SafeInv, shared, private, procs, history
<1>a. \/ node' = [node EXCEPT ![q].pc = "ready", ![q].committee = anchor]
      \/ node' = [node EXCEPT ![q] = NodeDown]
  BY DEF TypeOK
<1>b. \A m \in Member :
        /\ node'[m].key \in {node[m].key, NoKey}
        /\ node'[m].committee \in {node[m].committee, anchor, NoAnchor}
  <2>1. CASE node' = [node EXCEPT ![q].pc = "ready", ![q].committee = anchor]
    BY <2>1 DEF TypeOK
  <2>2. CASE node' = [node EXCEPT ![q] = NodeDown]
    BY <2>2 DEF TypeOK
  <2> QED BY <1>a, <2>1, <2>2
<1>1. TypeOK'
  <2>0. node[q] \in NodeState /\ anchor \in Anchor
    BY DEF TypeOK, NodeState
  <2>1. [node[q] EXCEPT !.pc = "ready", !.committee = anchor] \in NodeState
    BY <2>0 DEF NodeState, NodePhase
  <2>2. node' \in [Member -> NodeState]
    <3>1. CASE node' = [node EXCEPT ![q].pc = "ready", ![q].committee = anchor]
      BY <2>1, <3>1 DEF TypeOK, NodeState
    <3>2. CASE node' = [node EXCEPT ![q] = NodeDown]
      BY <3>2 DEF TypeOK, NodeState
    <3> QED BY <1>a, <3>1, <3>2
  <2> QED BY <2>2 DEF TypeOK, NodeState
<1>2. DrawnInv'
  BY <1>b, RunsFacts DEF DrawnInv
<1>3. OrderInv'
  BY <1>b DEF OrderInv
<1>4. KeyInv'
  <2>1. CASE node' = [node EXCEPT ![q].pc = "ready", ![q].committee = anchor]
    BY <2>1 DEF TypeOK, KeyInv
  <2>2. CASE node' = [node EXCEPT ![q] = NodeDown]
    BY <2>2 DEF TypeOK, KeyInv
  <2> QED BY <1>a, <2>1, <2>2
<1>5. SpentStaysSpent'
  <2>1. \A s \in spent : s[1] \in Key
    BY DEF TypeOK
  <2> QED BY <1>b, <2>1 DEF SpentStaysSpent
<1> QED BY <1>1, <1>2, <1>3, <1>4, <1>5

\* A member that has a key finds the anchor of its own run, and is not refused.
LEMMA ReadAnchorStep ==
  ASSUME IInv, NEW q \in Member, ReadAnchor(q)
  PROVE  IInv'
<1> USE Indices, KeyFacts, CommitteeFacts, DownFacts
    DEF ReadAnchor, Panic, IInv, SafeInv, shared, private, procs, history
<1>s. SafeInv'
  BY ReadAnchorSafe
<1>0. /\ runId \in Run
      /\ node[q].key = MemberKey(q, runId)
      /\ anchor = CommitteeOf(runId)
  BY DEF TypeOK, NodeInv, CleanInv, CommitteeOf
<1>a. node' = [node EXCEPT ![q].pc = "ready", ![q].committee = anchor]
  BY <1>0
<1>1. RunInv'
  BY DEF TypeOK, RunInv
<1>2. ClearedInv'
  BY DEF TypeOK, ClearedInv
<1>3. CollectInv'
  BY DEF TypeOK, CollectInv
<1>4. NodeInv'
  BY <1>0, <1>a DEF TypeOK, NodeInv
<1>5. AnchorInv'
  BY DEF TypeOK, AnchorInv, Assembled
<1>6. CleanInv'
  BY DEF TypeOK, CleanInv
<1> QED BY <1>s, <1>1, <1>2, <1>3, <1>4, <1>5, <1>6

\* The counter belongs to the key that signs, and moves past the slot.
LEMMA SignSafe ==
  ASSUME SafeInv, NEW q \in Member, Sign(q)
  PROVE  SafeInv'
<1> USE Indices, KeyFacts, CommitteeFacts, DownFacts
    DEF Sign, SafeInv, shared, private, procs, history
<1>0. /\ node[q].key \in Key
      /\ counter[q].key = node[q].key
  BY DEF KeyInv
<1>a. counter[q] \in Counter /\ counter[q].next \in 0 .. MaxSlot
  <2>1. counter[q] # NoCounter
    BY <1>0 DEF NoCounter
  <2> QED BY <2>1, BoundAssumption DEF TypeOK, Counter
<1>b. \A m \in Member :
        /\ m # q => counter'[m] = counter[m]
        /\ m = q => counter'[m].key = counter[m].key /\ counter'[m].next = counter[m].next + 1
  BY <1>a DEF TypeOK, Counter
<1>1. TypeOK'
  <2>1. counter' \in [Member -> Counter \cup {NoCounter}]
    <3>1. [counter[q] EXCEPT !.next = @ + 1] \in Counter
      BY <1>a, BoundAssumption DEF Counter
    <3> QED BY <3>1 DEF TypeOK
  <2>2. spent' \in SUBSET (Key \X (0 .. MaxSlot))
    BY <1>0, <1>a DEF TypeOK
  <2> QED BY <2>1, <2>2 DEF TypeOK
<1>2. DrawnInv'
  <2>1. \A s \in spent' : s \in spent \/ s[1] = node[q].key
    OBVIOUS
  <2> QED BY <2>1 DEF DrawnInv
<1>3. OrderInv'
  BY DEF TypeOK, OrderInv
<1>4. KeyInv'
  BY <1>b DEF KeyInv
<1>5. SpentStaysSpent'
  <2> SUFFICES ASSUME NEW m \in Member, NEW s \in spent',
                      s[1] \in {MemberKey(m, runId), node[m].key}
               PROVE  counter'[m].key = s[1] /\ s[2] < counter'[m].next
    BY DEF SpentStaysSpent
  <2>1. CASE s \in spent
    <3>1. counter[m].key = s[1] /\ s[2] < counter[m].next
      BY <2>1 DEF SpentStaysSpent
    <3>2. s[2] \in Int
      BY <2>1, BoundAssumption DEF TypeOK
    <3> QED BY <1>a, <1>b, <3>1, <3>2
  <2>2. CASE s = <<node[q].key, counter[q].next>>
    <3>1. node[q].key.member = q /\ node[q].key # NoKey
      BY <1>0 DEF KeyInv
    <3>2. node[m].key = NoKey \/ node[m].key.member = m
      BY DEF KeyInv
    <3>3. m = q
      BY <2>2, <3>1, <3>2
    <3> QED BY <1>0, <1>a, <1>b, <2>2, <3>3
  <2> QED BY <2>1, <2>2
<1> QED BY <1>1, <1>2, <1>3, <1>4, <1>5

\* Sign keeps what holds where the run identifier can be read.
LEMMA SignStep ==
  ASSUME IInv, NEW q \in Member, Sign(q)
  PROVE  IInv'
<1> USE Indices, KeyFacts, CommitteeFacts, DownFacts
    DEF Sign, IInv, SafeInv, shared, private, procs, history
<1>s. SafeInv'
  BY SignSafe
<1>1. RunInv'
  BY DEF TypeOK, RunInv
<1>2. ClearedInv'
  BY DEF TypeOK, ClearedInv
<1>3. CollectInv'
  BY DEF TypeOK, CollectInv
<1>4. NodeInv'
  BY DEF NodeInv
<1>5. AnchorInv'
  BY DEF TypeOK, AnchorInv, Assembled
<1>6. CleanInv'
  BY DEF TypeOK, CleanInv
<1> QED BY <1>s, <1>1, <1>2, <1>3, <1>4, <1>5, <1>6

\* A record is published for the committee that the member has loaded.
LEMMA PublishRecordSafe ==
  ASSUME SafeInv, NEW q \in Member, PublishRecord(q)
  PROVE  SafeInv'
<1> USE Indices, KeyFacts, CommitteeFacts, DownFacts
    DEF PublishRecord, SafeInv, shared, private, procs, history
<1>1. TypeOK'
  BY DEF TypeOK, BootPhase, NodePhase, HolderPhase
<1>2. DrawnInv'
  BY DEF TypeOK, DrawnInv
<1>3. OrderInv'
  BY DEF TypeOK, OrderInv
<1>4. KeyInv'
  BY DEF TypeOK, KeyInv
<1>5. SpentStaysSpent'
  BY DEF TypeOK, SpentStaysSpent
<1> QED BY <1>1, <1>2, <1>3, <1>4, <1>5

\* A record is published for the anchor of this run.
LEMMA PublishRecordStep ==
  ASSUME IInv, NEW q \in Member, PublishRecord(q)
  PROVE  IInv'
<1> USE Indices, KeyFacts, CommitteeFacts, DownFacts
    DEF PublishRecord, IInv, SafeInv, shared, private, procs, history
<1>s. SafeInv'
  BY PublishRecordSafe
<1>0. runId # NoRun /\ node[q].committee = CommitteeOf(runId)
  BY DEF NodeInv
<1>1. RunInv'
  BY DEF TypeOK, RunInv
<1>2. ClearedInv'
  BY <1>0 DEF RunInv, ClearedInv
<1>3. CollectInv'
  BY DEF TypeOK, CollectInv
<1>4. NodeInv'
  BY DEF TypeOK, NodeInv
<1>5. AnchorInv'
  BY DEF TypeOK, AnchorInv, Assembled
<1>6. CleanInv'
  <2>1. record' = CommitteeOf(runId)
    BY <1>0
  <2>2. CommitteeOf(runId) = [m \in Member |-> MemberKey(m, runId)]
    BY DEF CommitteeOf
  <2> QED BY <2>1, <2>2 DEF CleanInv
<1> QED BY <1>s, <1>1, <1>2, <1>3, <1>4, <1>5, <1>6

\* The holder's start writes no shared file.
LEMMA HolderStartSafe ==
  ASSUME SafeInv, HolderStart
  PROVE  SafeInv'
<1> USE Indices, KeyFacts, CommitteeFacts, DownFacts
    DEF HolderStart, SafeInv, shared, private, procs, history
<1>1. TypeOK'
  BY DEF TypeOK, BootPhase, NodePhase, HolderPhase
<1>2. DrawnInv'
  BY DEF TypeOK, DrawnInv
<1>3. OrderInv'
  BY DEF TypeOK, OrderInv
<1>4. KeyInv'
  BY DEF TypeOK, KeyInv
<1>5. SpentStaysSpent'
  BY DEF TypeOK, SpentStaysSpent
<1> QED BY <1>1, <1>2, <1>3, <1>4, <1>5

\* HolderStart keeps what holds where the run identifier can be read.
LEMMA HolderStartStep ==
  ASSUME IInv, HolderStart
  PROVE  IInv'
<1> USE Indices, KeyFacts, CommitteeFacts, DownFacts
    DEF HolderStart, IInv, SafeInv, shared, private, procs, history
<1>s. SafeInv'
  BY HolderStartSafe
<1>1. RunInv'
  BY DEF TypeOK, RunInv
<1>2. ClearedInv'
  BY DEF TypeOK, ClearedInv
<1>3. CollectInv'
  BY DEF TypeOK, CollectInv
<1>4. NodeInv'
  BY DEF TypeOK, NodeInv
<1>5. AnchorInv'
  BY DEF TypeOK, AnchorInv, Assembled
<1>6. CleanInv'
  BY DEF TypeOK, CleanInv
<1> QED BY <1>s, <1>1, <1>2, <1>3, <1>4, <1>5, <1>6

\* The holder loads an anchor that is in order.
LEMMA HolderBuildSafe ==
  ASSUME SafeInv, HolderBuild
  PROVE  SafeInv'
<1> USE Indices, KeyFacts, CommitteeFacts, DownFacts
    DEF HolderBuild, SafeInv, shared, private, procs, history
<1>1. TypeOK'
  BY DEF TypeOK, BootPhase, NodePhase, HolderPhase
<1>2. DrawnInv'
  BY DEF TypeOK, DrawnInv
<1>3. OrderInv'
  <2>1. mark' \in {mark, anchor} /\ holder'.committee \in {anchor, NoAnchor}
    OBVIOUS
  <2> QED BY <2>1 DEF OrderInv
<1>4. KeyInv'
  BY DEF TypeOK, KeyInv
<1>5. SpentStaysSpent'
  BY DEF TypeOK, SpentStaysSpent
<1> QED BY <1>1, <1>2, <1>3, <1>4, <1>5

\* The holder loads the anchor, whichever run it is of.
LEMMA HolderBuildStep ==
  ASSUME IInv, HolderBuild
  PROVE  IInv'
<1> USE Indices, KeyFacts, CommitteeFacts, DownFacts
    DEF HolderBuild, IInv, SafeInv, shared, private, procs, history
<1>s. SafeInv'
  BY HolderBuildSafe
<1>1. RunInv'
  BY DEF TypeOK, RunInv
<1>2. ClearedInv'
  BY DEF TypeOK, ClearedInv
<1>3. CollectInv'
  BY DEF TypeOK, CollectInv
<1>4. NodeInv'
  BY DEF TypeOK, NodeInv
<1>5. AnchorInv'
  BY DEF TypeOK, AnchorInv, Assembled
<1>6. CleanInv'
  BY DEF TypeOK, CleanInv
<1> QED BY <1>s, <1>1, <1>2, <1>3, <1>4, <1>5, <1>6

\* A member that dies forgets its key.
LEMMA DieSafe ==
  ASSUME SafeInv, Die
  PROVE  SafeInv'
<1> USE Indices, KeyFacts, CommitteeFacts, DownFacts
    DEF Die, Panic, Fault, SafeInv, shared, private, procs, history
<1>1. TypeOK'
  <2>1. boot' \in BootState
    BY DEF TypeOK, BootState
  <2>2. node' \in [Member -> NodeState]
    BY DEF TypeOK, NodeState
  <2>3. holder' \in [pc : HolderPhase, committee : Anchor \cup {NoAnchor}]
    BY DEF TypeOK
  <2>4. faults' \in 0 .. MaxFaults
    BY BoundAssumption DEF TypeOK
  <2> QED BY <2>1, <2>2, <2>3, <2>4 DEF TypeOK, NodeState, BootState
<1>2. DrawnInv'
  <2>1. \A m \in Member : node'[m].key \in {node[m].key, NoKey}
    BY DEF TypeOK
  <2> QED BY <2>1, RunsFacts DEF DrawnInv
<1>3. OrderInv'
  <2>1. \A m \in Member : node'[m].committee \in {node[m].committee, NoAnchor}
    BY DEF TypeOK
  <2>2. holder'.committee \in {holder.committee, NoAnchor} /\ boot' \in {boot, BootDown}
    OBVIOUS
  <2> QED BY <2>1, <2>2 DEF OrderInv
<1>4. KeyInv'
  BY DEF TypeOK, KeyInv
<1>5. SpentStaysSpent'
  BY DEF TypeOK, SpentStaysSpent
<1> QED BY <1>1, <1>2, <1>3, <1>4, <1>5

\* A death leaves every file as it is, and a member forgets its key.
LEMMA DieStep ==
  ASSUME IInv, Die
  PROVE  IInv'
<1> USE Indices, KeyFacts, CommitteeFacts, DownFacts
    DEF Die, Panic, Fault, IInv, SafeInv, shared, private, procs, history
<1>s. SafeInv'
  BY DieSafe
<1>1. RunInv'
  BY DEF TypeOK, RunInv
<1>2. ClearedInv'
  BY DEF TypeOK, ClearedInv
<1>3. CollectInv'
  BY DEF TypeOK, CollectInv
<1>4. NodeInv'
  BY DEF TypeOK, NodeInv
<1>5. AnchorInv'
  BY DEF TypeOK, AnchorInv, Assembled
<1>6. CleanInv'
  BY DEF TypeOK, CleanInv
<1> QED BY <1>s, <1>1, <1>2, <1>3, <1>4, <1>5, <1>6

\* A lost file is never replaced by an older one.
LEMMA OutageSafe ==
  ASSUME SafeInv, Outage
  PROVE  SafeInv'
<1> USE Indices, KeyFacts, CommitteeFacts, DownFacts
    DEF Outage, Fault, AllDown, SafeInv, shared, private, procs, history
<1>1. TypeOK'
  <2>1. faults' \in 0 .. MaxFaults
    BY BoundAssumption DEF TypeOK
  <2>2. keyFile' \in [Member -> Key \cup {NoKey}]
    BY DEF TypeOK
  <2>3. runId' \in Run \cup {NoRun} /\ anchor' \in Anchor \cup {NoAnchor}
        /\ record' \in Anchor \cup {NoAnchor}
    BY DEF TypeOK
  <2> QED BY <2>1, <2>2, <2>3 DEF TypeOK, NodeState, BootState
<1>2. DrawnInv'
  BY RunsFacts DEF DrawnInv
<1>3. OrderInv'
  <2>1. \A m \in Member : keyFile'[m] \in {keyFile[m], NoKey}
    BY DEF TypeOK
  <2> QED BY <2>1 DEF OrderInv
<1>4. KeyInv'
  BY DEF TypeOK, KeyInv
<1>5. SpentStaysSpent'
  BY DEF TypeOK, SpentStaysSpent
<1> QED BY <1>1, <1>2, <1>3, <1>4, <1>5

\* Outage keeps what holds where the run identifier can be read.
LEMMA OutageStep ==
  ASSUME IInv, Outage
  PROVE  IInv'
<1> USE Indices, KeyFacts, CommitteeFacts, DownFacts
    DEF Outage, Fault, AllDown, IInv, SafeInv, shared, private, procs, history
<1>s. SafeInv'
  BY OutageSafe
<1>1. RunInv'
  <2>1. runId' \in {runId, NoRun} /\ NoRun <= runs
    BY DEF TypeOK, NoRun
  <2> QED BY <2>1 DEF RunInv
<1>2. ClearedInv'
  BY DEF TypeOK, ClearedInv
<1>3. CollectInv'
  BY DEF TypeOK, CollectInv
<1>4. NodeInv'
  BY DEF TypeOK, NodeInv
<1>5. AnchorInv'
  BY DEF TypeOK, AnchorInv, Assembled
<1>6. CleanInv'
  BY DEF TypeOK, CleanInv
<1> QED BY <1>s, <1>1, <1>2, <1>3, <1>4, <1>5, <1>6

\* Deleted volumes keep nothing, and no later run has these keys.
LEMMA DownSafe ==
  ASSUME SafeInv, Down
  PROVE  SafeInv'
<1> USE Indices, KeyFacts, CommitteeFacts, DownFacts
    DEF Down, Fault, AllDown, SafeInv, shared, private, procs, history
<1>1. TypeOK'
  <2>1. faults' \in 0 .. MaxFaults
    BY BoundAssumption DEF TypeOK
  <2> QED BY <2>1 DEF TypeOK, NodeState, BootState
<1>2. DrawnInv'
  BY RunsFacts DEF DrawnInv
<1>3. OrderInv'
  BY DEF OrderInv
<1>4. KeyInv'
  BY DEF TypeOK, KeyInv
<1>5. SpentStaysSpent'
  BY DEF TypeOK, SpentStaysSpent
<1> QED BY <1>1, <1>2, <1>3, <1>4, <1>5

\* Down keeps what holds where the run identifier can be read.
LEMMA DownStep ==
  ASSUME SafeInv, Down
  PROVE  IInv'
<1> USE Indices, KeyFacts, CommitteeFacts, DownFacts
    DEF Down, Fault, AllDown, IInv, SafeInv, shared, private, procs, history
<1>s. SafeInv'
  BY DownSafe
<1>1. RunInv'
  <2>1. NoRun <= runs
    BY DEF TypeOK, NoRun
  <2> QED BY <2>1 DEF RunInv
<1>2. ClearedInv'
  BY DEF TypeOK, ClearedInv
<1>3. CollectInv'
  BY DEF TypeOK, CollectInv
<1>4. NodeInv'
  BY DEF TypeOK, NodeInv
<1>5. AnchorInv'
  BY DEF TypeOK, AnchorInv, Assembled
<1>6. CleanInv'
  BY DEF TypeOK, CleanInv
<1> QED BY <1>s, <1>1, <1>2, <1>3, <1>4, <1>5, <1>6
-----------------------------------------------------------------------------
(* The theorems                                                            *)

\* The initial state satisfies both invariants.
LEMMA InitInv == Init => IInv
<1> SUFFICES ASSUME Init PROVE IInv
  OBVIOUS
<1> USE Indices, KeyFacts, CommitteeFacts, DownFacts DEF Init
<1>1. TypeOK
  <2>1. counter \in [Member -> Counter \cup {NoCounter}]
    OBVIOUS
  <2>2. runs \in 0 .. MaxRuns /\ faults \in 0 .. MaxFaults
    BY BoundAssumption
  <2>3. boot \in BootState
    OBVIOUS
  <2> QED BY <2>1, <2>2, <2>3 DEF TypeOK, NodeState, BootState
<1>2. DrawnInv /\ OrderInv /\ KeyInv
  BY DEF DrawnInv, OrderInv, Ordered, KeyInv, NoRun
<1>3. RunInv /\ ClearedInv /\ CollectInv /\ NodeInv
  BY DEF RunInv, ClearedInv, CollectInv, NodeInv, NoRun
<1>4. AnchorInv /\ CleanInv /\ SpentStaysSpent
  BY DEF AnchorInv, Assembled, CleanInv, SpentStaysSpent
<1> QED BY <1>1, <1>2, <1>3, <1>4 DEF IInv, SafeInv

\* SafeInv is inductive.
LEMMA Safe == Spec => []SafeInv
<1>1. Init => SafeInv
  BY InitInv DEF IInv
<1>2. SafeInv /\ [Next]_vars => SafeInv'
  <2> SUFFICES ASSUME SafeInv, [Next]_vars PROVE SafeInv'
    OBVIOUS
  <2>1. CASE BootStep
    BY <2>1, BootStartSafe, ResetSafe, DrawRunSafe, CollectSafe, PublishAnchorSafe DEF BootStep
  <2>2. ASSUME NEW q \in Member, NodeStep(q) PROVE SafeInv'
    BY <2>2, NodeStartSafe, ReadRunSafe, PublishKeySafe, OpenCounterSafe, ReadAnchorSafe
       DEF NodeStep
  <2>3. ASSUME NEW q \in Member, Sign(q) \/ PublishRecord(q) PROVE SafeInv'
    BY <2>3, SignSafe, PublishRecordSafe
  <2>4. CASE HolderStep
    BY <2>4, HolderStartSafe, HolderBuildSafe DEF HolderStep
  <2>5. CASE Die \/ Outage \/ Down
    BY <2>5, DieSafe, OutageSafe, DownSafe
  <2>6. CASE UNCHANGED vars
    BY <2>6 DEF vars, shared, private, procs, history, SafeInv, TypeOK, DrawnInv, OrderInv,
                KeyInv, SpentStaysSpent
  <2> QED BY <2>1, <2>2, <2>3, <2>4, <2>5, <2>6 DEF Next
<1> QED BY <1>1, <1>2, PTL DEF Spec

\* IInv is inductive up to a failed read of an existing identifier, and holds again
\* once all volumes have been deleted.
LEMMA Inductive == Spec => [](~rotated => IInv)
<1>1. Init => (~rotated => IInv)
  BY InitInv
<1>2. SafeInv /\ (~rotated => IInv) /\ [Next]_vars => (~rotated => IInv)'
  <2> SUFFICES ASSUME SafeInv, ~rotated => IInv, [Next]_vars, ~rotated' PROVE IInv'
    OBVIOUS
  <2>1. CASE Down
    BY <2>1, DownStep
  <2>2. ASSUME ~Down PROVE IInv
    <3>1. \/ BootStart \/ rotated' = rotated
      BY <2>2 DEF Next, BootStep, NodeStep, HolderStep, Reset, DrawRun, Collect, PublishAnchor,
         NodeStart, ReadRun, PublishKey, OpenCounter, ReadAnchor, Sign, PublishRecord,
         HolderStart, HolderBuild, Die, Outage, history, vars
    <3>2. BootStart => rotated' \/ rotated' = rotated
      BY DEF BootStart
    <3> QED BY <3>1, <3>2
  <2>3. CASE BootStep /\ ~Down
    BY <2>2, <2>3, BootStartStep, ResetStep, DrawRunStep, CollectStep, PublishAnchorStep
       DEF BootStep
  <2>4. ASSUME NEW q \in Member, NodeStep(q), ~Down PROVE IInv'
    BY <2>2, <2>4, NodeStartStep, ReadRunStep, PublishKeyStep, OpenCounterStep, ReadAnchorStep
       DEF NodeStep
  <2>5. ASSUME NEW q \in Member, Sign(q) \/ PublishRecord(q), ~Down PROVE IInv'
    BY <2>2, <2>5, SignStep, PublishRecordStep
  <2>6. CASE HolderStep /\ ~Down
    BY <2>2, <2>6, HolderStartStep, HolderBuildStep DEF HolderStep
  <2>7. CASE (Die \/ Outage) /\ ~Down
    BY <2>2, <2>7, DieStep, OutageStep
  <2>8. CASE UNCHANGED vars /\ ~Down
    BY <2>2, <2>8
       DEF vars, shared, private, procs, history, IInv, SafeInv, TypeOK, DrawnInv, OrderInv,
           KeyInv, RunInv, ClearedInv, Present, CollectInv, NodeInv, AnchorInv, CleanInv,
           SpentStaysSpent
  <2> QED BY <2>1, <2>3, <2>4, <2>5, <2>6, <2>7, <2>8 DEF Next
<1> QED BY <1>1, <1>2, Safe, PTL DEF Spec

\* TypeOK is an invariant: every file and process keeps its type; in particular no
\* anchor with a missing key is published, and only real keys sign.
THEOREM TypeCorrect == Spec => []TypeOK
<1>1. SafeInv => TypeOK
  BY DEF SafeInv
<1> QED BY <1>1, Safe, PTL

\* Beside a run identifier the shared volumes hold nothing of an earlier run, however
\* often the bootstrap was killed while it cleared them and whatever was lost, unless it
\* took an existing run for none and reset under live members (NothingStale).
THEOREM VolumesAreOfOneRun == Spec => []NothingStale
<1>1. (~rotated => IInv) => NothingStale
  BY DEF IInv, CleanInv, CommitteeOf, NothingStale
<1> QED BY <1>1, Inductive, PTL

\* All members that are ready share one anchor that names their keys, and a holder of
\* an anchor of that run has the same, with the same exception (OneCommittee).
THEOREM CommitteeIsOne == Spec => []OneCommittee
<1>1. (~rotated => IInv) => OneCommittee
  <2> SUFFICES ASSUME IInv, ~rotated, NEW m \in Member, node[m].pc = "ready"
               PROVE  /\ node[m].committee[m] = node[m].key
                      /\ \A q \in Member : node[q].pc = "ready" =>
                           node[q].committee = node[m].committee
                      /\ holder.pc = "ready" /\ holder.committee[m].run = node[m].key.run =>
                           holder.committee = node[m].committee
    BY DEF OneCommittee
  <2>1. /\ runId \in Run /\ node[m].key = MemberKey(m, runId)
        /\ \A q \in Member : node[q].pc = "ready" => node[q].committee = CommitteeOf(runId)
    BY DEF IInv, SafeInv, TypeOK, NodeInv
  <2>2. node[m].committee[m] = node[m].key
    BY <2>1, CommitteeFacts
  <2>3. ASSUME holder.committee[m].run = node[m].key.run
        PROVE  holder.committee = CommitteeOf(runId)
    <3>1. holder.committee[m].run = runId /\ runId # NoRun
      BY <2>1, <2>3, KeyFacts DEF Run, NoRun
    <3>2. holder.committee # NoAnchor
      BY <3>1, KeyFacts, CommitteeFacts
    <3>3. PICK r \in Run : holder.committee = CommitteeOf(r)
      BY <3>2 DEF IInv, AnchorInv, Assembled
    <3>4. r = runId
      BY <3>1, <3>3, KeyFacts, CommitteeFacts
    <3> QED BY <3>3, <3>4
  <2> QED BY <2>1, <2>2, <2>3
<1> QED BY <1>1, Inductive, PTL

\* Every anchor, also one assembled of two runs' keys, has at each index a key of that
\* member (IndexOrder).
THEOREM BitsNameMembers == Spec => []IndexOrder
<1>1. SafeInv => IndexOrder
  BY DEF SafeInv, OrderInv, Ordered, IndexOrder
<1> QED BY <1>1, Safe, PTL

\* A key that a member may come back with has its spent slots behind its counter,
\* through deaths, outages and new runs, also one that the bootstrap begins under live
\* members because it cannot read the run identifier (SpentStaysSpent).
THEOREM SlotsStaySpent == Spec => []SpentStaysSpent
<1>1. SafeInv => SpentStaysSpent
  BY DEF SafeInv
<1> QED BY <1>1, Safe, PTL
=============================================================================
