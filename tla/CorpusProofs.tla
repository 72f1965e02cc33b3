---------------------------- MODULE CorpusProofs ----------------------------
(***************************************************************************)
(* Proofs about Corpus, for every committee, threshold, key window and     *)
(* number of updates that params.rs admits, and any number of runs that    *)
(* are killed anywhere: no key signs twice at a slot, a gate that passes   *)
(* is evidence of a run that has written everything but, at most, its last *)
(* control, each control that is whole is refused by its own check and by  *)
(* no other, and what a complete run has written passes every gate.        *)
(***************************************************************************)
EXTENDS Corpus, FiniteSetTheorems, TLAPS

Entry == [run : Run, n : Int, at : Nat]

\* The programs that sign, and those that write the artifact directory.
Signing == {"fixture", "self", "demo", "raw"}
Making == {"prover", "honest-only", "self"}

\* The program that runs, and what it has to do with the two directories.
JobInv ==
  /\ Idle => job = NoJob
  /\ ~Idle => job.run \in Run /\ job.size \in Updates
  /\ job.by \in Signing => job.run = runs
  /\ prepared.run <= runs /\ made.run <= runs
  /\ job.by \in InMemory => prepared.run < job.run /\ made.run < job.run
  /\ job.by = "fixture" =>
       /\ prepared.run = job.run /\ prepared.size = job.size /\ ~prepared.done
       /\ made.run < job.run /\ job.step <= job.size + 4
  /\ job.by \in Making =>
       /\ made.by = job.by /\ made.run = job.run /\ made.size = job.size /\ ~made.done
       /\ AnchorFile \in DOMAIN out /\ job.step <= job.size + 6
  /\ job.by \in {"prover", "honest-only"} => prepared.run = job.run
  /\ job.by = "honest-only" => job.step <= job.size
  /\ job.by \in {"prover", "self"} => T >= 2
  /\ job.by = "demo" => job.step <= job.size + 3

\* The slot, counted from the genesis slot, that the members of a program's run have
\* not reached yet: versions first, then the slots of the controls.
Frontier(j) ==
  IF j.step <= j.size THEN j.step
  ELSE IF j.by = "fixture"
       THEN IF j.step = j.size + 1 THEN j.size + 1
            ELSE IF j.step = j.size + 2 THEN KeySlots ELSE KeySlots + 1
  ELSE IF j.by = "self"
       THEN IF j.step = j.size + 1 THEN j.size
            ELSE IF j.step <= j.size + 4 THEN j.size + 1 ELSE KeySlots
  ELSE IF j.step <= j.size + 2 THEN KeySlots ELSE KeySlots + 1

\* The outsiders of a program's run have not signed yet.
OutsidersPending(j) ==
  \/ j.by = "fixture"
  \/ j.by = "self" /\ j.step <= j.size + 5
  \/ j.by = "demo" /\ j.step <= j.size + 1

\* The programs that sign with bare keys.
Bare == {"fixture", "self", "demo"}

\* Signatures belong to runs that were started, and those of the present run, if it
\* has no counters, are behind its frontier.
SignedInv ==
  \A s \in signed :
    /\ s.key.run <= runs
    /\ job.by \in Bare /\ s.key.run = job.run =>
         /\ ~s.key.outsider => s.slot < Genesis + Frontier(job)
         /\ s.key.outsider => ~OutsidersPending(job)

\* The types of everything but what was torn or removed.
CoreTypes ==
  /\ DOMAIN fixture \subseteq FixtureFiles
  /\ DOMAIN out \subseteq OutFiles
  /\ mark \subseteq Mark /\ \A m, q \in mark : m.inside = q.inside => m = q
  /\ job \in Job
  /\ \A s \in signed : s.key \in Key /\ s.slot \in Genesis .. Genesis + KeySlots
  /\ reused \in BOOLEAN
  /\ runs \in 0 .. MaxRuns
  /\ prepared \in Made /\ made \in Made

\* What is whole in the fixture directory belongs to the run that prepared it.
FixtureInv ==
  /\ DOMAIN fixture \subseteq FixtureFiles
  /\ DOMAIN fixture # {} => prepared.run \in Run /\ prepared.size \in Updates
  /\ AnchorFile \in DOMAIN fixture => fixture[AnchorFile] = Anchor(prepared.run)
  /\ \A v \in Version : UpdateFile(v) \in DOMAIN fixture => fixture[UpdateFile(v)].version = v
  /\ job.by = "fixture" => AnchorFile \in DOMAIN fixture

\* What is whole in the artifact directory belongs to the run that made it; no version
\* is behind the place where it stands, and the last control is there only at the end.
OutInv ==
  /\ DOMAIN out \subseteq OutFiles
  /\ DOMAIN out # {} => made.run \in Run /\ made.size \in Updates
  /\ AnchorFile \in DOMAIN out => out[AnchorFile] = Anchor(made.run)
  /\ \A v \in Version : UpdateFile(v) \in DOMAIN out =>
       v < made.size /\ out[UpdateFile(v)].version \in Version /\ v <= out[UpdateFile(v)].version
  /\ CanonicalFile \in DOMAIN out =>
       out[CanonicalFile].version \in Version /\ made.size - 1 <= out[CanonicalFile].version
  /\ \A c \in Control : AttackFile(c) \in DOMAIN out =>
       made.by \in {"prover", "self"} /\ (c = LastControl(made.by) => made.done)

\* As far as the program has got.
ProgressInv ==
  job.by \in Making =>
    /\ \A v \in Version : v < job.size => (UpdateFile(v) \in DOMAIN out <=> v < job.step)
    /\ CanonicalFile \in DOMAIN out => job.step > job.size

IInv == CoreTypes /\ JobInv /\ SignedInv /\ NoSlotTwice /\ FixtureInv /\ OutInv /\ ProgressInv

-----------------------------------------------------------------------------
(* Facts about the parameters, files and signatures                        *)

\* The sizes are natural numbers, and the controls' slots fit behind the updates'.
LEMMA Params ==
  /\ Size \in Nat /\ T \in Nat /\ 1 <= T /\ T <= Size /\ Genesis \in Nat /\ KeySlots \in Nat
  /\ MaxRuns \in Nat /\ Run \subseteq Nat /\ 0 \notin Run /\ ListEntries \subseteq Nat
  /\ Updates \subseteq Nat /\ 0 \notin Updates /\ \A n \in Updates : n + 1 < KeySlots
  /\ FirstT \subseteq Member /\ 0 \in FirstT
BY ParamsAssumption DEF Run, FirstT, Member

\* The versions that a run of some size publishes.
LEMMA Versions ==
  /\ Version \subseteq Nat /\ 0 \in Version
  /\ \A n \in Updates, v \in Nat : v < n => v \in Version
  /\ \A n \in Updates : n - 1 \in Version /\ n - 1 \in Nat /\ n - 1 < n
  /\ \A v \in Version : 0 .. v \subseteq Version
<1>1. \A n \in Updates : n \in Nat /\ n # 0
  BY Params
<1>2. Version \subseteq Nat /\ 0 \in Version
  BY <1>1 DEF Version
<1>3. ASSUME NEW n \in Updates, NEW v \in Nat, v < n PROVE v \in Version
  <2>1. v \in 0 .. n - 1
    BY <1>1, <1>3
  <2> QED BY <2>1 DEF Version
<1>4. \A n \in Updates : n - 1 \in Nat /\ n - 1 < n
  BY <1>1
<1>5. ASSUME NEW v \in Version, NEW w \in 0 .. v PROVE w \in Version
  <2>1. v \in Nat /\ w \in Nat /\ w <= v
    BY <1>2
  <2>2. CASE v = 0
    BY <1>2, <2>1, <2>2
  <2>3. CASE v # 0
    <3>1. PICK n \in Updates : v \in 0 .. n - 1
      BY <2>3 DEF Version
    <3>2. w < n
      BY <1>1, <2>1, <3>1
    <3> QED BY <1>3, <2>1, <3>2
  <2> QED BY <2>2, <2>3
<1> QED BY <1>2, <1>3, <1>4, <1>5

\* Up to the controls no slot overflows.
LEMMA Slots ==
  ASSUME NEW r, NEW v \in Nat, v <= KeySlots + 1
  PROVE  /\ V!SlotFor(Anchor(r), v) = Genesis + v
         /\ V!SlotFor(Anchor(r), v) # V!NoSlot
<1>1. Anchor(r).genesis = Genesis
  BY DEF Anchor
<1>2. Genesis + v <= Genesis + KeySlots + 1 /\ Genesis + v # -1
  BY Params
<1> QED BY <1>1, <1>2 DEF V!SlotFor, V!NoSlot

\* An anchor names its run.
LEMMA Anchors ==
  /\ \A r \in Run, q \in Run : Anchor(r) = Anchor(q) => r = q
  /\ \A r : Anchor(r).t = T
<1>1. \A r : Anchor(r).members[1].run = r
  BY Params DEF Anchor
<1>2. \A r : Anchor(r).t = T
  BY DEF Anchor
<1> QED BY <1>1, <1>2

\* File names do not collide.
LEMMA Files ==
  /\ \A v, w : UpdateFile(v) = UpdateFile(w) => v = w
  /\ \A c, d : AttackFile(c) = AttackFile(d) => c = d
  /\ \A v, c : UpdateFile(v) # AttackFile(c)
  /\ \A v : UpdateFile(v) \notin {AnchorFile, CanonicalFile, OutsiderFile}
  /\ \A c : AttackFile(c) \notin {AnchorFile, CanonicalFile, OutsiderFile}
  /\ AnchorFile # CanonicalFile /\ AnchorFile # OutsiderFile /\ CanonicalFile # OutsiderFile
BY DEF UpdateFile, AttackFile, AnchorFile, CanonicalFile, OutsiderFile

\* The keys of a set of signatures.
LEMMA SignatureFacts ==
  ASSUME NEW run, NEW o, NEW I, NEW m, NEW slot, NEW s \in Signatures(Keys(run, o, I), m, slot)
  PROVE  /\ s.key.run = run /\ s.key.outsider = o /\ s.key.index \in I
         /\ s.key = [run |-> run, outsider |-> o, index |-> s.key.index]
         /\ s.message = m /\ s.slot = slot
         /\ s = [key |-> s.key, message |-> m, slot |-> slot]
BY DEF Signatures, Keys

\* The instance counts as this module does.
LEMMA SameCardinality == ASSUME NEW S PROVE V!Cardinality(S) = Cardinality(S)
BY DEF V!Cardinality, Cardinality

\* An update's place in the order of the names is at most its version, and its version
\* if no earlier one is missing.
LEMMA UpdateRank ==
  ASSUME NEW names, NEW v \in UpdatesIn(names)
  PROVE  /\ V!Rank(UpdatesIn(names), v) \in Nat /\ V!Rank(UpdatesIn(names), v) <= v + 1
         /\ (\A w \in Version : w < v => UpdateFile(w) \in names) /\ 0 .. v \subseteq Version =>
              V!Rank(UpdatesIn(names), v) = v + 1
<1> DEFINE B == {j \in UpdatesIn(names) : j <= v}
<1>1. v \in Nat /\ v \in Version /\ UpdateFile(v) \in names
  BY Versions DEF UpdatesIn
<1>2. \A j \in UpdatesIn(names) : j \in Nat
  BY Versions DEF UpdatesIn
<1>3. B \in SUBSET (0 .. v)
  <2>1. ASSUME NEW j \in B PROVE j \in 0 .. v
    <3>1. j \in Nat /\ j <= v
      BY <1>2
    <3> QED BY <1>1, <3>1
  <2> QED BY <2>1
<1>4. V!Rank(UpdatesIn(names), v) = Cardinality(B)
  <2>1. V!Rank(UpdatesIn(names), v) = V!Cardinality(B)
    BY DEF V!Rank
  <2> QED BY <2>1, SameCardinality
<1>5. IsFiniteSet(0 .. v) /\ Cardinality(0 .. v) = v + 1
  BY <1>1, FS_Interval
<1>6. (\A w \in Version : w < v => UpdateFile(w) \in names) /\ 0 .. v \subseteq Version => B = 0 .. v
  BY <1>1, <1>3 DEF UpdatesIn
<1> HIDE DEF B
<1>7. IsFiniteSet(B) /\ Cardinality(B) <= v + 1
  BY <1>3, <1>5, FS_Subset
<1>8. Cardinality(B) \in Nat
  BY <1>7, FS_CardinalityType
<1> QED BY <1>4, <1>5, <1>6, <1>7, <1>8

-----------------------------------------------------------------------------
(* The program that runs                                                   *)

\* The types of the program's record and of the two histories.
LEMMA JobTypes ==
  ASSUME CoreTypes
  PROVE  /\ job.step \in Nat /\ job.size \in Nat /\ job.run \in Nat /\ runs \in Nat
         /\ job.size \in Updates \cup {0} /\ job.run \in Run \cup {0}
         /\ job.by \in Program /\ job.list \in Seq(Entry)
         /\ job.entries \in Nat /\ job.entries \in ListEntries \cup {0}
         /\ prepared.run \in Nat /\ made.run \in Nat
<1>1. /\ job.step \in Nat /\ job.size \in Updates \cup {0} /\ job.run \in Run \cup {0}
      /\ job.by \in Program /\ job.list \in Seq(Entry) /\ job.entries \in ListEntries \cup {0}
  BY DEF CoreTypes, Job, Entry
<1>2. prepared.run \in Run \cup {0} /\ made.run \in Run \cup {0}
  BY DEF CoreTypes, Made
<1>3. runs \in Nat
  BY Params DEF CoreTypes
<1>4. Run \cup {0} \subseteq Nat /\ Updates \cup {0} \subseteq Nat /\ ListEntries \cup {0} \subseteq Nat
  BY Params
<1>5. job.size \in Nat /\ job.run \in Nat /\ job.entries \in Nat
  BY <1>1, <1>4
<1>6. prepared.run \in Nat /\ made.run \in Nat
  BY <1>2, <1>4
<1> QED BY <1>1, <1>3, <1>5, <1>6

\* No program runs.
LEMMA NoJobFields == NoJob.by = "none" /\ NoJob.step = 0 /\ NoJob.list = <<>> /\ NoJob \in Job
<1>1. <<>> \in Seq(Entry)
  OBVIOUS
<1> QED BY <1>1 DEF NoJob, Job, Entry, Program

\* The record of a program that starts.
LEMMA JobRecord ==
  ASSUME NEW by \in Program, NEW r \in Run \cup {0}, NEW n \in Updates, NEW e \in ListEntries \cup {0}
  PROVE  [by |-> by, run |-> r, size |-> n, step |-> 0, list |-> <<>>, entries |-> e] \in Job
<1>1. <<>> \in Seq(Entry)
  OBVIOUS
<1> QED BY <1>1 DEF Job, Entry

\* A program that starts with its number and its size.
LEMMA StartFields ==
  ASSUME NEW by \in Program, NEW r \in Run \cup {0}, NEW n \in Updates,
         job' = [NoJob EXCEPT !.by = by, !.run = r, !.size = n]
  PROVE  /\ job'.by = by /\ job'.run = r /\ job'.size = n /\ job'.step = 0 /\ job'.list = <<>>
         /\ job' \in Job
<1> USE DEF NoJob
<1>1. job' = [by |-> by, run |-> r, size |-> n, step |-> 0, list |-> <<>>, entries |-> 0]
  OBVIOUS
<1>2. 0 \in ListEntries \cup {0}
  OBVIOUS
<1>3. [by |-> by, run |-> r, size |-> n, step |-> 0, list |-> <<>>, entries |-> 0] \in Job
  BY <1>2, JobRecord, Zenon
<1>4. job' \in Job
  BY <1>1, <1>3, Zenon
<1> QED BY <1>1, <1>4

\* committee_fixture, which is also given the size of its lists.
LEMMA FixtureStartFields ==
  ASSUME NEW by \in Program, NEW r \in Run \cup {0}, NEW n \in Updates, NEW e \in ListEntries,
         job' = [NoJob EXCEPT !.by = by, !.run = r, !.size = n, !.entries = e]
  PROVE  /\ job'.by = by /\ job'.run = r /\ job'.size = n /\ job'.step = 0 /\ job'.list = <<>>
         /\ job' \in Job
<1> USE DEF NoJob
<1>1. job' = [by |-> by, run |-> r, size |-> n, step |-> 0, list |-> <<>>, entries |-> e]
  OBVIOUS
<1>2. e \in ListEntries \cup {0}
  OBVIOUS
<1>3. [by |-> by, run |-> r, size |-> n, step |-> 0, list |-> <<>>, entries |-> e] \in Job
  BY <1>2, JobRecord, Zenon
<1>4. job' \in Job
  BY <1>1, <1>3, Zenon
<1> QED BY <1>1, <1>4

\* A program that goes on with another list.
LEMMA UpdateFields ==
  ASSUME CoreTypes, NEW l \in Seq(Entry), job' = [job EXCEPT !.step = @ + 1, !.list = l]
  PROVE  /\ job'.by = job.by /\ job'.run = job.run /\ job'.size = job.size
         /\ job'.step = job.step + 1 /\ job'.list = l /\ job'.entries = job.entries
         /\ job' \in Job
<1>1. job \in [by : Program, run : Run \cup {0}, size : Updates \cup {0}, step : Nat,
               list : Seq(Entry), entries : ListEntries \cup {0}]
  BY DEF CoreTypes, Job, Entry
<1>2. /\ job'.by = job.by /\ job'.run = job.run /\ job'.size = job.size
      /\ job'.step = job.step + 1 /\ job'.list = l /\ job'.entries = job.entries
  BY <1>1
<1>3. [job EXCEPT !.step = @ + 1] \in
         [by : Program, run : Run \cup {0}, size : Updates \cup {0}, step : Nat,
          list : Seq(Entry), entries : ListEntries \cup {0}]
  BY <1>1
<1>4. job' \in [by : Program, run : Run \cup {0}, size : Updates \cup {0}, step : Nat,
                list : Seq(Entry), entries : ListEntries \cup {0}]
  BY <1>3
<1> QED BY <1>2, <1>4 DEF Job, Entry

\* A program that goes on with its list.
LEMMA StepFields ==
  ASSUME CoreTypes, Steps
  PROVE  /\ job'.by = job.by /\ job'.run = job.run /\ job'.size = job.size
         /\ job'.step = job.step + 1 /\ job'.list = job.list /\ job'.entries = job.entries
         /\ job' \in Job
<1>1. job \in [by : Program, run : Run \cup {0}, size : Updates \cup {0}, step : Nat,
               list : Seq(Entry), entries : ListEntries \cup {0}]
  BY DEF CoreTypes, Job, Entry
<1>2. /\ job'.by = job.by /\ job'.run = job.run /\ job'.size = job.size
      /\ job'.step = job.step + 1 /\ job'.list = job.list /\ job'.entries = job.entries
  BY <1>1 DEF Steps
<1>3. job' \in [by : Program, run : Run \cup {0}, size : Updates \cup {0}, step : Nat,
                list : Seq(Entry), entries : ListEntries \cup {0}]
  BY <1>1 DEF Steps
<1> QED BY <1>2, <1>3 DEF Job, Entry

\* advance_list returns a list of entries, whatever the size that is asked for.
LEMMA AdvanceListType ==
  ASSUME NEW list \in Seq(Entry), NEW run \in Run, NEW v \in Nat, NEW e \in Nat
  PROVE  AdvanceList(list, run, v, e) \in Seq(Entry)
<1>1. \A p \in Nat : Fresh(run, v, p) \in Entry
  BY DEF Fresh, Entry
<1>2. CASE e = 0
  BY <1>1, <1>2 DEF AdvanceList
<1>3. CASE e # 0 /\ Len(list) # e
  <2>1. [p \in 1 .. e |-> Fresh(run, v, p)] \in [1 .. e -> Entry]
    BY <1>1
  <2>2. [1 .. e -> Entry] \subseteq Seq(Entry)
    BY DEF Seq
  <2> QED BY <1>3, <2>1, <2>2 DEF AdvanceList
<1>4. CASE e # 0 /\ Len(list) = e
  <2> DEFINE k == ((v - 1) % e) + 1
             new == [list EXCEPT ![k] = Fresh(run, v, 0)]
  <2>1. list \in [1 .. e -> Entry]
    BY <1>4
  <2>2. new \in [1 .. e -> Entry]
    BY <1>1, <2>1
  <2>3. new \in Seq(Entry)
    BY <2>2 DEF Seq
  <2> QED BY <1>4, <2>3 DEF AdvanceList
<1> QED BY <1>2, <1>3, <1>4

-----------------------------------------------------------------------------
(* What an action leaves as it is                                          *)

\* A program has ended, or none was started.
LEMMA JobEnds ==
  ASSUME CoreTypes, JobInv, job' = NoJob, runs' \in Nat, runs <= runs',
         prepared'.run <= runs', made'.run <= runs'
  PROVE  JobInv' /\ ProgressInv' /\ job' \in Job
BY NoJobFields DEF JobInv, ProgressInv, Idle, Signing, Making, InMemory

\* Signatures that a step leaves out, or leaves to a program that signs with other keys.
LEMMA SignedFrame ==
  ASSUME IInv, signed' \subseteq signed, reused' = reused, runs' \in Nat, runs <= runs',
         job'.by \in Bare => job'.run > runs
  PROVE  /\ SignedInv' /\ NoSlotTwice'
         /\ (\A s \in signed : s.key \in Key /\ s.slot \in Genesis .. Genesis + KeySlots)'
         /\ (reused \in BOOLEAN)'
<1>1. /\ \A s \in signed : s.key \in Key /\ s.slot \in Genesis .. Genesis + KeySlots
      /\ reused \in BOOLEAN /\ runs \in Nat /\ SignedInv /\ NoSlotTwice
  BY JobTypes DEF IInv, CoreTypes
<1>2. \A s \in signed : s.key.run \in Nat
  BY <1>1, Params DEF Key
<1>3. SignedInv'
  <2> SUFFICES ASSUME NEW s \in signed' PROVE s.key.run <= runs' /\ ~(job'.by \in Bare /\ s.key.run = job'.run)
    BY DEF SignedInv
  <2>1. s \in signed /\ s.key.run <= runs /\ s.key.run \in Nat
    BY <1>1, <1>2 DEF SignedInv
  <2>2. s.key.run <= runs'
    BY <1>1, <2>1
  <2>3. job'.run > runs => s.key.run # job'.run
    BY <1>1, <2>1
  <2> QED BY <2>2, <2>3
<1> QED BY <1>1, <1>3 DEF NoSlotTwice

\* A program that signs with bare keys stays ahead of every slot it has signed at.
LEMMA SignsAhead ==
  ASSUME IInv, NEW new, Sign(new), runs' = runs,
         \A s \in new : /\ s.key \in Key /\ s.slot \in Genesis .. Genesis + KeySlots
                        /\ s.key.run = runs
                        /\ ~s.key.outsider => s.slot >= Genesis + Frontier(job)
                        /\ s.key.outsider => OutsidersPending(job),
         job.by \in Bare, job'.by \in Bare => job'.run = job.run,
         job'.by \in Bare => \A s \in new : /\ ~s.key.outsider => s.slot < Genesis + Frontier(job')
                                            /\ s.key.outsider => ~OutsidersPending(job'),
         job'.by \in Bare => /\ Frontier(job) \in Nat /\ Frontier(job') \in Nat
                             /\ Frontier(job) <= Frontier(job')
                             /\ OutsidersPending(job') => OutsidersPending(job)
  PROVE  /\ SignedInv' /\ NoSlotTwice'
         /\ (\A s \in signed : s.key \in Key /\ s.slot \in Genesis .. Genesis + KeySlots)'
         /\ (reused \in BOOLEAN)'
<1>1. /\ \A s \in signed : s.key \in Key /\ s.slot \in Genesis .. Genesis + KeySlots
      /\ reused \in BOOLEAN /\ runs \in Nat /\ SignedInv /\ NoSlotTwice
      /\ job.run = runs
  BY JobTypes DEF IInv, CoreTypes, JobInv, Signing, Bare
<1>2. \A s \in signed \cup new : s.key \in Key /\ s.slot \in Genesis .. Genesis + KeySlots /\ s.slot \in Nat
  BY <1>1, Params
<1>3. signed' = signed \cup new
  BY DEF Sign
<1>4. ASSUME NEW s \in new, NEW q \in signed, s.key = q.key, s.slot = q.slot PROVE FALSE
  <2>1. q.key.run = job.run
    BY <1>1, <1>4
  <2>2. (~q.key.outsider => q.slot < Genesis + Frontier(job)) /\ (q.key.outsider => ~OutsidersPending(job))
    BY <1>1, <2>1 DEF SignedInv
  <2>3. q.key.outsider \in BOOLEAN
    BY <1>2 DEF Key
  <2>4. Frontier(job) \in Int /\ Genesis \in Nat /\ q.slot \in Nat
    BY <1>1, <1>2, Params, JobTypes DEF Frontier, IInv
  <2> QED BY <1>4, <2>2, <2>3, <2>4
<1>5. NoSlotTwice' /\ (reused \in BOOLEAN)'
  BY <1>1, <1>4 DEF NoSlotTwice, Sign
<1>6. SignedInv'
  <2> SUFFICES ASSUME NEW s \in signed'
               PROVE  /\ s.key.run <= runs'
                      /\ job'.by \in Bare /\ s.key.run = job'.run =>
                           /\ ~s.key.outsider => s.slot < Genesis + Frontier(job')
                           /\ s.key.outsider => ~OutsidersPending(job')
    BY DEF SignedInv
  <2>1. CASE s \in new
    BY <1>1, <2>1
  <2>2. CASE s \in signed
    <3>1. /\ s.key.run <= runs
          /\ s.key.run = job.run =>
               (~s.key.outsider => s.slot < Genesis + Frontier(job)) /\ (s.key.outsider => ~OutsidersPending(job))
      BY <1>1, <2>2 DEF SignedInv
    <3>2. s.slot \in Nat /\ Genesis \in Nat
      BY <1>2, <2>2, Params
    <3> QED BY <3>1, <3>2
  <2> QED BY <1>3, <2>1, <2>2
<1> QED BY <1>2, <1>3, <1>5, <1>6

\* The fixture directory stays as it is while another program runs.
LEMMA FixtureFrame ==
  ASSUME FixtureInv, fixture' = fixture, prepared'.run = prepared.run, prepared'.size = prepared.size,
         job'.by = "fixture" => job.by = "fixture"
  PROVE  FixtureInv'
BY DEF FixtureInv

\* The artifact directory stays as it is.
LEMMA OutFrame ==
  ASSUME OutInv, out' = out, made' = made
  PROVE  OutInv'
BY DEF OutInv, HasUpdates

\* What a signature of a program's own keys says.
LEMMA SignaturesOf ==
  ASSUME NEW run \in Run, NEW o \in BOOLEAN, NEW I \in SUBSET Member, NEW m, NEW v \in Nat, v <= KeySlots,
         NEW s \in Signatures(Keys(run, o, I), m, V!SlotFor(Anchor(run), v))
  PROVE  /\ s.key \in Key /\ s.key.run = run /\ s.key.outsider = o
         /\ s.slot = Genesis + v /\ s.slot \in Genesis .. Genesis + KeySlots
<1>1. V!SlotFor(Anchor(run), v) = Genesis + v
  BY Slots, Params
<1>2. /\ s.key.run = run /\ s.key.outsider = o /\ s.key.index \in I
      /\ s.key = [run |-> run, outsider |-> o, index |-> s.key.index]
      /\ s.slot = Genesis + v
  BY <1>1, SignatureFacts
<1>3. s.key \in Key
  BY <1>2 DEF Key
<1>4. Genesis + v \in Genesis .. Genesis + KeySlots
  BY Params
<1> QED BY <1>2, <1>3, <1>4

\* The quorums are members.
LEMMA Quorums ==
  /\ \A n \in Updates, v \in Nat : v < n => Quorum(v) \subseteq Member
  /\ \A v \in Nat : Rotating(v) \subseteq Member
  /\ FirstT \subseteq Member /\ {0} \subseteq Member
<1>1. \A n \in Updates, v \in Nat : v < n => v \in 0 .. n - 1
  BY Params
<1>2. \A n \in Updates, v \in Nat : v < n => Quorum(v) \subseteq Member
  BY <1>1, ParamsAssumption DEF Member
<1>3. ASSUME NEW v \in Nat, NEW j \in 0 .. T - 1 PROVE (v + j) % Size \in Member
  BY Params DEF Member
<1>4. \A v \in Nat : Rotating(v) \subseteq Member
  BY <1>3 DEF Rotating
<1> QED BY <1>2, <1>4, Params

\* The slots of the three signed controls.
LEMMA SignsOf ==
  ASSUME NEW run \in Run, NEW list, NEW n \in Updates, NEW c \in {"honest", "slot", "version"},
         NEW s \in Signs(Anchor(run), run, list, n, c)
  PROVE  /\ s.key \in Key /\ s.key.run = run /\ ~s.key.outsider
         /\ s.slot = Genesis + (IF c = "honest" THEN n ELSE IF c = "slot" THEN n + 1 ELSE KeySlots)
         /\ s.slot \in Genesis .. Genesis + KeySlots
<1> DEFINE v == IF c = "honest" THEN n ELSE IF c = "slot" THEN n + 1 ELSE KeySlots
           m == IF c = "version" THEN Message(Anchor(run), list, n - 1) ELSE Message(Anchor(run), list, n)
<1>1. v \in Nat /\ v <= KeySlots
  BY Params
<1>2. s \in Signatures(Keys(run, FALSE, FirstT), m, V!SlotFor(Anchor(run), v))
  BY DEF Signs, LateVersion, SpoofSlot
<1> HIDE DEF v, m
<1>3. /\ s.key \in Key /\ s.key.run = run /\ s.key.outsider = FALSE
      /\ s.slot = Genesis + v /\ s.slot \in Genesis .. Genesis + KeySlots
  BY <1>1, <1>2, SignaturesOf, Quorums
<1> QED BY <1>3 DEF v

-----------------------------------------------------------------------------
(* committee_fixture                                                       *)

\* The inductive invariant is preserved by FixtureStart.
LEMMA FixtureStartStep ==
  ASSUME IInv, FixtureStart
  PROVE  IInv'
<1>0. CoreTypes /\ JobInv /\ OutInv
  BY DEF IInv
<1>1. PICK n \in Updates, e \in ListEntries :
        /\ Idle /\ runs < MaxRuns
        /\ runs' = runs + 1
        /\ fixture' = Write(Clear(fixture), AnchorFile, Anchor(runs'))
        /\ job' = [NoJob EXCEPT !.by = "fixture", !.run = runs', !.size = n, !.entries = e]
        /\ prepared' = [by |-> "fixture", run |-> runs', size |-> n, done |-> FALSE]
        /\ UNCHANGED <<out, mark, signed, reused, made>>
  BY DEF FixtureStart
<1>2. runs \in Nat /\ runs' \in Nat /\ runs' \in Run /\ runs' \in 0 .. MaxRuns /\ runs <= runs'
  <2>1. runs < MaxRuns /\ runs' = runs + 1
    BY <1>1
  <2>2. runs \in Nat /\ MaxRuns \in Nat
    BY <1>0, JobTypes, Params
  <2> QED BY <2>1, <2>2 DEF Run
<1>3. /\ job'.by = "fixture" /\ job'.run = runs' /\ job'.size = n /\ job'.step = 0
      /\ job' \in Job
  <2>1. "fixture" \in Program /\ runs' \in Run \cup {0}
    BY <1>2 DEF Program
  <2>2. job' = [NoJob EXCEPT !.by = "fixture", !.run = runs', !.size = n, !.entries = e]
    BY <1>1
  <2> QED BY <2>1, <2>2, FixtureStartFields
<1>4. /\ prepared'.run = runs' /\ prepared'.size = n /\ ~prepared'.done /\ prepared' \in Made
  BY <1>1, <1>2 DEF Made, Program
<1>5. DOMAIN fixture' = {AnchorFile} /\ fixture'[AnchorFile] = Anchor(runs')
  <2>1. fixture' = Write(Clear(fixture), AnchorFile, Anchor(runs'))
    BY <1>1
  <2> QED BY <2>1 DEF Write, Clear, Empty
<1>6. JobInv'
  <2>1. made.run <= runs /\ made.run \in Nat
    BY <1>0, JobTypes DEF JobInv
  <2>2. made'.run < runs' /\ made'.run <= runs'
    BY <1>1, <1>2, <2>1
  <2>3. n \in Nat /\ 0 <= n + 4
    BY Params
  <2> QED BY <1>2, <1>3, <1>4, <2>2, <2>3 DEF JobInv, Idle, Signing, InMemory, Making
<1>7. /\ SignedInv' /\ NoSlotTwice'
      /\ (\A s \in signed : s.key \in Key /\ s.slot \in Genesis .. Genesis + KeySlots)'
      /\ (reused \in BOOLEAN)'
  BY <1>1, <1>2, <1>3, SignedFrame
<1>8. FixtureInv'
  BY <1>2, <1>3, <1>4, <1>5, Files DEF FixtureInv, FixtureFiles
<1>9. OutInv' /\ ProgressInv'
  BY <1>0, <1>1, <1>3, OutFrame DEF ProgressInv, Making
<1>10. CoreTypes'
  BY <1>0, <1>1, <1>2, <1>3, <1>4, <1>7, <1>8, <1>9 DEF CoreTypes, FixtureInv
<1> QED BY <1>6, <1>7, <1>8, <1>9, <1>10 DEF IInv

\* The inductive invariant is preserved by FixtureUpdate.
LEMMA FixtureUpdateStep ==
  ASSUME IInv, FixtureUpdate
  PROVE  IInv'
<1>0. CoreTypes /\ JobInv /\ OutInv /\ FixtureInv
  BY DEF IInv
<1> DEFINE a == Anchor(job.run)
           list == AdvanceList(job.list, job.run, job.step, job.entries)
           sigs == Signatures(Keys(job.run, FALSE, Quorum(job.step)), Message(a, list, job.step),
                              V!SlotFor(a, job.step))
<1>1. /\ job.by = "fixture" /\ job.step < job.size
      /\ Sign(sigs)
      /\ fixture' = Write(fixture, UpdateFile(job.step), Raw(list, job.step, sigs))
      /\ job' = [job EXCEPT !.step = @ + 1, !.list = list]
      /\ UNCHANGED <<out, mark, runs, prepared, made>>
  BY DEF FixtureUpdate, history
<1>2. /\ job.step \in Nat /\ job.size \in Nat /\ job.run \in Run /\ job.size \in Updates /\ runs \in Nat
      /\ job.run = runs /\ job.list \in Seq(Entry) /\ job.entries \in Nat
  BY <1>0, <1>1, JobTypes DEF JobInv, Idle, Signing
<1>3. list \in Seq(Entry)
  BY <1>2, AdvanceListType
<1>4. Raw(list, job.step, sigs).version = job.step
  BY DEF Raw, V!StatusListNew, V!RawRecord
<1>5. \A s \in sigs : /\ s.key \in Key /\ s.key.run = job.run /\ s.key.outsider = FALSE
                      /\ s.slot = Genesis + job.step /\ s.slot \in Genesis .. Genesis + KeySlots
  <2>1. Quorum(job.step) \subseteq Member
    BY <1>1, <1>2, Quorums
  <2>2. job.step <= KeySlots
    BY <1>1, <1>2, Params
  <2> DEFINE m == Message(a, list, job.step)
             I == Quorum(job.step)
             o == FALSE
  <2>3. job.run \in Run /\ job.step \in Nat /\ o \in BOOLEAN /\ I \in SUBSET Member
    BY <1>2, <2>1
  <2>4. sigs = Signatures(Keys(job.run, o, I), m, V!SlotFor(Anchor(job.run), job.step))
    OBVIOUS
  <2> HIDE DEF m, I, o, sigs
  <2>5. \A s \in sigs : /\ s.key \in Key /\ s.key.run = job.run /\ s.key.outsider = o
                        /\ s.slot = Genesis + job.step /\ s.slot \in Genesis .. Genesis + KeySlots
    BY <2>2, <2>3, <2>4, SignaturesOf
  <2> QED BY <2>5 DEF o
<1> HIDE DEF list, sigs, a
<1>6. /\ job'.by = job.by /\ job'.run = job.run /\ job'.size = job.size /\ job'.step = job.step + 1
      /\ job' \in Job
  BY <1>0, <1>1, <1>3, UpdateFields
<1>7. JobInv'
  BY <1>0, <1>1, <1>2, <1>6 DEF JobInv, Idle, Signing, InMemory, Making
<1>8. /\ SignedInv' /\ NoSlotTwice'
      /\ (\A s \in signed : s.key \in Key /\ s.slot \in Genesis .. Genesis + KeySlots)'
      /\ (reused \in BOOLEAN)'
  <2>1. Frontier(job) = job.step /\ Frontier(job') = job.step + 1
    BY <1>1, <1>2, <1>6 DEF Frontier
  <2>2. OutsidersPending(job)
    BY <1>1 DEF OutsidersPending
  <2>3. /\ Sign(sigs) /\ runs' = runs /\ job.by \in Bare
        /\ job'.by \in Bare => job'.run = job.run
    BY <1>1, <1>6 DEF Bare
  <2>4. \A s \in sigs : s.slot >= Genesis + Frontier(job) /\ s.slot < Genesis + Frontier(job')
    BY <1>2, <1>5, <2>1, Params
  <2>5. \A s \in sigs : s.key.run = runs /\ ~s.key.outsider
    BY <1>0, <1>1, <1>5 DEF JobInv, Signing
  <2>6. /\ Frontier(job) \in Nat /\ Frontier(job') \in Nat /\ Frontier(job) <= Frontier(job')
    BY <1>2, <2>1
  <2> QED BY <1>5, <2>2, <2>3, <2>4, <2>5, <2>6, SignsAhead
<1>9. FixtureInv'
  <2>1. job.step \in Version
    BY <1>1, <1>2, Versions
  <2>2. /\ DOMAIN fixture' = DOMAIN fixture \cup {UpdateFile(job.step)}
        /\ fixture'[UpdateFile(job.step)].version = job.step
        /\ \A g \in DOMAIN fixture : g # UpdateFile(job.step) => fixture'[g] = fixture[g]
    <3>1. fixture' = Write(fixture, UpdateFile(job.step), Raw(list, job.step, sigs))
      BY <1>1
    <3> QED BY <1>4, <3>1 DEF Write
  <2>3. AnchorFile # UpdateFile(job.step)
    BY Files
  <2> QED BY <1>0, <1>1, <1>6, <2>1, <2>2, <2>3, Files DEF FixtureInv, FixtureFiles
<1>10. OutInv' /\ ProgressInv'
  BY <1>0, <1>1, <1>6, OutFrame DEF ProgressInv, Making
<1>11. CoreTypes'
  BY <1>0, <1>1, <1>6, <1>8, <1>9, <1>10 DEF CoreTypes, FixtureInv
<1> QED BY <1>7, <1>8, <1>9, <1>10, <1>11 DEF IInv

\* The inductive invariant is preserved by FixtureControl.
LEMMA FixtureControlStep ==
  ASSUME IInv, FixtureControl
  PROVE  IInv'
<1>0. CoreTypes /\ JobInv /\ OutInv /\ FixtureInv
  BY DEF IInv
<1> DEFINE c == FixtureControls[job.step - job.size + 1]
           sigs == Signs(Anchor(job.run), job.run, job.list, job.size, c)
<1>1. /\ job.by = "fixture" /\ job.step - job.size + 1 \in 1 .. 3
      /\ Sign(sigs) /\ Steps
      /\ UNCHANGED <<out, mark, runs, prepared, made>>
  BY DEF FixtureControl, FixtureControls, history
<1>2. \E content : fixture' = Write(fixture, AttackFile(c), content)
  BY DEF FixtureControl
<1>3. /\ job.step \in Nat /\ job.size \in Nat /\ job.run \in Run /\ job.size \in Updates /\ runs \in Nat
      /\ job.run = runs
  BY <1>0, <1>1, JobTypes DEF JobInv, Idle, Signing
<1>4. /\ c \in {"honest", "slot", "version"}
      /\ c = "honest" <=> job.step = job.size
      /\ c = "slot" <=> job.step = job.size + 1
      /\ c = "version" <=> job.step = job.size + 2
  BY <1>1, <1>3 DEF FixtureControls
<1>5. \A s \in sigs : /\ s.key \in Key /\ s.key.run = job.run /\ ~s.key.outsider
                      /\ s.slot = Genesis + (IF c = "honest" THEN job.size ELSE IF c = "slot" THEN job.size + 1 ELSE KeySlots)
                      /\ s.slot \in Genesis .. Genesis + KeySlots
  BY <1>3, <1>4, SignsOf
<1> HIDE DEF c, sigs
<1>6. /\ job'.by = job.by /\ job'.run = job.run /\ job'.size = job.size /\ job'.step = job.step + 1
      /\ job' \in Job
  BY <1>0, <1>1, StepFields
<1>7. JobInv'
  BY <1>0, <1>1, <1>3, <1>6 DEF JobInv, Idle, Signing, InMemory, Making
<1>8. /\ SignedInv' /\ NoSlotTwice'
      /\ (\A s \in signed : s.key \in Key /\ s.slot \in Genesis .. Genesis + KeySlots)'
      /\ (reused \in BOOLEAN)'
  <2>1. /\ Frontier(job) = (IF c = "honest" THEN job.size ELSE IF c = "slot" THEN job.size + 1 ELSE KeySlots)
        /\ Frontier(job') = (IF c = "honest" THEN job.size + 1 ELSE IF c = "slot" THEN KeySlots ELSE KeySlots + 1)
    BY <1>1, <1>3, <1>4, <1>6 DEF Frontier
  <2>2. OutsidersPending(job)
    BY <1>1 DEF OutsidersPending
  <2>3. job.size + 1 < KeySlots /\ KeySlots \in Nat /\ Genesis \in Nat
    BY <1>3, Params
  <2> QED BY <1>1, <1>3, <1>4, <1>5, <1>6, <2>1, <2>2, <2>3, SignsAhead DEF Bare
<1>9. FixtureInv'
  <2>1. c \in RawControl
    BY <1>4 DEF RawControl
  <2>2. /\ DOMAIN fixture' = DOMAIN fixture \cup {AttackFile(c)}
        /\ \A g \in DOMAIN fixture : g # AttackFile(c) => fixture'[g] = fixture[g]
    <3>1. PICK content : fixture' = Write(fixture, AttackFile(c), content)
      BY <1>2
    <3> QED BY <3>1 DEF Write
  <2> QED BY <1>0, <1>1, <1>6, <2>1, <2>2, Files DEF FixtureInv, FixtureFiles
<1>10. OutInv' /\ ProgressInv'
  BY <1>0, <1>1, <1>6, OutFrame DEF ProgressInv, Making
<1>11. CoreTypes'
  BY <1>0, <1>1, <1>6, <1>8, <1>9, <1>10 DEF CoreTypes, FixtureInv
<1> QED BY <1>7, <1>8, <1>9, <1>10, <1>11 DEF IInv

\* A program that goes on without a signature.
LEMMA SignsNothing ==
  ASSUME IInv, signed' = signed, reused' = reused, runs' = runs,
         job.by \in Bare, job'.by \in Bare => job'.run = job.run,
         job'.by \in Bare => /\ Frontier(job) \in Nat /\ Frontier(job') \in Nat
                             /\ Frontier(job) <= Frontier(job')
                             /\ OutsidersPending(job') => OutsidersPending(job)
  PROVE  /\ SignedInv' /\ NoSlotTwice'
         /\ (\A s \in signed : s.key \in Key /\ s.slot \in Genesis .. Genesis + KeySlots)'
         /\ (reused \in BOOLEAN)'
<1>1. reused \in BOOLEAN
  BY DEF IInv, CoreTypes
<1>2. Sign({})
  BY <1>1 DEF Sign
<1> QED BY <1>2, SignsAhead

\* The inductive invariant is preserved by FixtureOutsiderAnchor.
LEMMA FixtureOutsiderAnchorStep ==
  ASSUME IInv, FixtureOutsiderAnchor
  PROVE  IInv'
<1>0. CoreTypes /\ JobInv /\ OutInv /\ FixtureInv
  BY DEF IInv
<1>1. /\ job.by = "fixture" /\ job.step = job.size + 3 /\ Steps
      /\ fixture' = Write(fixture, OutsiderFile, OutsiderAnchor(job.run))
      /\ UNCHANGED <<out, mark, signed, reused, runs, prepared, made>>
  BY DEF FixtureOutsiderAnchor, history
<1>2. /\ job.step \in Nat /\ job.size \in Nat /\ job.run \in Run /\ job.size \in Updates /\ runs \in Nat
      /\ job.run = runs
  BY <1>0, <1>1, JobTypes DEF JobInv, Idle, Signing
<1>3. /\ job'.by = job.by /\ job'.run = job.run /\ job'.size = job.size /\ job'.step = job.step + 1
      /\ job' \in Job
  BY <1>0, <1>1, StepFields
<1>4. JobInv'
  BY <1>0, <1>1, <1>2, <1>3 DEF JobInv, Idle, Signing, InMemory, Making
<1>5. /\ SignedInv' /\ NoSlotTwice'
      /\ (\A s \in signed : s.key \in Key /\ s.slot \in Genesis .. Genesis + KeySlots)'
      /\ (reused \in BOOLEAN)'
  <2>1. Frontier(job) = KeySlots + 1 /\ Frontier(job') = KeySlots + 1
    BY <1>1, <1>2, <1>3 DEF Frontier
  <2>2. OutsidersPending(job)
    BY <1>1 DEF OutsidersPending
  <2> QED BY <1>1, <1>2, <1>3, <2>1, <2>2, Params, SignsNothing DEF Bare
<1>6. FixtureInv'
  <2>1. fixture' = Write(fixture, OutsiderFile, OutsiderAnchor(job.run))
    BY <1>1
  <2>2. /\ DOMAIN fixture' = DOMAIN fixture \cup {OutsiderFile}
        /\ \A g \in DOMAIN fixture : g # OutsiderFile => fixture'[g] = fixture[g]
    BY <2>1 DEF Write
  <2> QED BY <1>0, <1>1, <1>3, <2>2, Files DEF FixtureInv, FixtureFiles
<1>7. OutInv' /\ ProgressInv'
  BY <1>0, <1>1, <1>3, OutFrame DEF ProgressInv, Making
<1>8. CoreTypes'
  BY <1>0, <1>1, <1>3, <1>5, <1>6, <1>7 DEF CoreTypes, FixtureInv
<1> QED BY <1>4, <1>5, <1>6, <1>7, <1>8 DEF IInv

\* A history whose program is done keeps its other fields.
LEMMA HistoryDone ==
  ASSUME NEW h \in Made, NEW done \in BOOLEAN, NEW g, g = [h EXCEPT !.done = done]
  PROVE  g \in Made /\ g.by = h.by /\ g.run = h.run /\ g.size = h.size /\ g.done = done
BY DEF Made

\* The inductive invariant is preserved by FixtureOutsider.
LEMMA FixtureOutsiderStep ==
  ASSUME IInv, FixtureOutsider
  PROVE  IInv'
<1>0. CoreTypes /\ JobInv /\ OutInv /\ FixtureInv
  BY DEF IInv
<1> DEFINE new == Signatures(Keys(job.run, TRUE, {0}), Message(Anchor(job.run), job.list, job.size),
                             V!SlotFor(Anchor(job.run), job.size))
<1>1. /\ job.by = "fixture" /\ job.step = job.size + 4 /\ job' = NoJob
      /\ Sign(new)
      /\ UNCHANGED <<out, mark, runs, made>>
  BY DEF FixtureOutsider, Ends
<1>2. \E content : fixture' = Write(fixture, AttackFile("outsider"), content)
  BY DEF FixtureOutsider
<1>3. prepared' = [prepared EXCEPT !.done = TRUE]
  BY DEF FixtureOutsider
<1>4. prepared' \in Made /\ prepared'.run = prepared.run /\ prepared'.size = prepared.size
  BY <1>0, <1>3, HistoryDone DEF CoreTypes
<1>5. /\ job.step \in Nat /\ job.size \in Nat /\ job.run \in Run /\ job.size \in Updates /\ runs \in Nat
      /\ job.run = runs
  BY <1>0, <1>1, JobTypes DEF JobInv, Idle, Signing
<1>6. \A s \in new : /\ s.key \in Key /\ s.key.run = job.run /\ s.key.outsider = TRUE
                     /\ s.slot \in Genesis .. Genesis + KeySlots
  <2>1. job.size <= KeySlots
    BY <1>5, Params
  <2>2. {0} \in SUBSET Member
    BY Quorums
  <2>3. job.run \in Run /\ job.size \in Nat /\ TRUE \in BOOLEAN
    BY <1>5
  <2> DEFINE m == Message(Anchor(job.run), job.list, job.size)
             I == {0}
             o == TRUE
  <2>4. /\ new = Signatures(Keys(job.run, o, I), m, V!SlotFor(Anchor(job.run), job.size))
        /\ I \in SUBSET Member /\ o \in BOOLEAN
    BY <2>2
  <2> HIDE DEF m, new, I, o
  <2>5. \A s \in new : /\ s.key \in Key /\ s.key.run = job.run /\ s.key.outsider = o
                       /\ s.slot \in Genesis .. Genesis + KeySlots
    BY <2>1, <2>3, <2>4, SignaturesOf
  <2> QED BY <2>5 DEF o
<1> HIDE DEF new
<1>7. JobInv' /\ ProgressInv' /\ job' \in Job
  BY <1>0, <1>1, <1>4, <1>5, JobEnds DEF JobInv
<1>8. /\ SignedInv' /\ NoSlotTwice'
      /\ (\A s \in signed : s.key \in Key /\ s.slot \in Genesis .. Genesis + KeySlots)'
      /\ (reused \in BOOLEAN)'
  <2>1. OutsidersPending(job)
    BY <1>1 DEF OutsidersPending
  <2> QED BY <1>1, <1>5, <1>6, <2>1, NoJobFields, SignsAhead DEF Bare
<1>9. FixtureInv'
  <2>1. PICK content : fixture' = Write(fixture, AttackFile("outsider"), content)
    BY <1>2
  <2>2. /\ DOMAIN fixture' = DOMAIN fixture \cup {AttackFile("outsider")}
        /\ \A g \in DOMAIN fixture : g # AttackFile("outsider") => fixture'[g] = fixture[g]
    BY <2>1 DEF Write
  <2>3. AttackFile("outsider") \in FixtureFiles
    BY DEF FixtureFiles, RawControl
  <2> QED BY <1>0, <1>1, <1>4, <2>2, <2>3, Files, NoJobFields DEF FixtureInv
<1>10. OutInv'
  BY <1>0, <1>1, OutFrame
<1>11. CoreTypes'
  BY <1>0, <1>1, <1>4, <1>7, <1>8, <1>9, <1>10 DEF CoreTypes, FixtureInv
<1> QED BY <1>7, <1>8, <1>9, <1>10, <1>11 DEF IInv

-----------------------------------------------------------------------------
(* prover                                                                  *)

\* The inductive invariant is preserved by ProverStart.
LEMMA ProverStartStep ==
  ASSUME IInv, ProverStart
  PROVE  IInv'
<1>0. CoreTypes /\ JobInv /\ FixtureInv
  BY DEF IInv
<1>1. PICK n \in Updates, by \in {"prover", "honest-only"} :
        LET found == (by = "honest-only" \/ T >= 2) /\ AnchorFile \in DOMAIN fixture
            run == IF found THEN prepared.run ELSE 0
        IN /\ Idle /\ runs < MaxRuns
           /\ runs' = runs + 1
           /\ out' = IF found THEN Write(Clear(out), AnchorFile, fixture[AnchorFile]) ELSE Clear(out)
           /\ job' = IF found /\ Cardinality(UpdatesIn(FixtureNames)) = n
                     THEN [NoJob EXCEPT !.by = by, !.run = run, !.size = n] ELSE NoJob
           /\ made' = [by |-> by, run |-> run, size |-> n, done |-> FALSE]
           /\ UNCHANGED <<fixture, mark, signed, reused, prepared>>
  BY DEF ProverStart
<1> DEFINE found == (by = "honest-only" \/ T >= 2) /\ AnchorFile \in DOMAIN fixture
           run == IF found THEN prepared.run ELSE 0
<1>2. Idle /\ runs < MaxRuns /\ runs' = runs + 1 /\ UNCHANGED <<fixture, mark, signed, reused, prepared>>
  BY <1>1
<1>3. /\ runs \in Nat /\ runs' \in Nat /\ runs' \in 0 .. MaxRuns /\ runs <= runs' /\ prepared.run <= runs
      /\ prepared.run \in Nat /\ prepared.run <= runs'
  BY <1>0, <1>2, JobTypes, Params DEF JobInv
<1>4. found => prepared.run \in Run /\ fixture[AnchorFile] = Anchor(prepared.run)
  BY <1>0 DEF FixtureInv
<1>5. run \in Run \cup {0} /\ run \in Nat /\ run <= runs /\ run <= runs'
  <2>1. CASE found
    BY <1>3, <1>4, <2>1
  <2>2. CASE ~found
    BY <1>3, <2>2
  <2> QED BY <2>1, <2>2
<1>6. made' = [by |-> by, run |-> run, size |-> n, done |-> FALSE]
  BY <1>1
<1>7. by \in Program
  BY DEF Program
<1>8. /\ made'.by = by /\ made'.run = run /\ made'.size = n /\ ~made'.done /\ made' \in Made
  BY <1>5, <1>6, <1>7 DEF Made
<1>9. /\ found => DOMAIN out' = {AnchorFile} /\ out'[AnchorFile] = fixture[AnchorFile]
      /\ ~found => DOMAIN out' = {}
  <2>1. CASE found
    <3>1. out' = Write(Clear(out), AnchorFile, fixture[AnchorFile])
      BY <1>1, <2>1
    <3> QED BY <2>1, <3>1 DEF Write, Clear, Empty
  <2>2. CASE ~found
    <3>1. out' = Clear(out)
      BY <1>1, <2>2
    <3> QED BY <2>2, <3>1 DEF Clear, Empty
  <2> QED BY <2>1, <2>2
<1>10. OutInv'
  BY <1>4, <1>8, <1>9, Files DEF OutInv, OutFiles
<1>11. FixtureInv' /\ job'.by \notin Bare /\ job' \in Job /\ JobInv' /\ ProgressInv'
  <2>1. CASE found /\ Cardinality(UpdatesIn(FixtureNames)) = n
    <3>1. job' = [NoJob EXCEPT !.by = by, !.run = run, !.size = n]
      BY <1>1, <2>1
    <3>2. /\ job'.by = by /\ job'.run = run /\ job'.size = n /\ job'.step = 0 /\ job' \in Job
      BY <1>5, <1>7, <3>1, StartFields
    <3>3. FixtureInv'
      BY <1>0, <1>2, <3>2, FixtureFrame
    <3>4. n \in Nat /\ 0 <= n + 6 /\ 0 <= n
      BY Params
    <3>5. \A v \in Version : ~(v < 0)
      BY Versions
    <3>6. ProgressInv'
      BY <1>9, <2>1, <3>2, <3>5, Files DEF ProgressInv
    <3>7. JobInv'
      BY <1>2, <1>3, <1>4, <1>5, <1>8, <1>9, <2>1, <3>2, <3>4, <3>5 DEF JobInv, Idle, Signing, InMemory, Making
    <3> QED BY <3>2, <3>3, <3>6, <3>7 DEF Bare
  <2>2. CASE ~(found /\ Cardinality(UpdatesIn(FixtureNames)) = n)
    <3>1. job' = NoJob
      BY <1>1, <2>2
    <3>2. JobInv' /\ ProgressInv' /\ job' \in Job
      BY <1>0, <1>2, <1>3, <1>5, <1>8, <3>1, JobEnds
    <3>3. FixtureInv'
      BY <1>0, <1>2, <3>1, NoJobFields, FixtureFrame
    <3> QED BY <3>1, <3>2, <3>3, NoJobFields DEF Bare
  <2> QED BY <2>1, <2>2
<1>12. /\ SignedInv' /\ NoSlotTwice'
       /\ (\A s \in signed : s.key \in Key /\ s.slot \in Genesis .. Genesis + KeySlots)'
       /\ (reused \in BOOLEAN)'
  BY <1>2, <1>3, <1>11, SignedFrame
<1>13. CoreTypes'
  BY <1>0, <1>2, <1>3, <1>8, <1>10, <1>11, <1>12 DEF CoreTypes, FixtureInv, OutInv
<1> QED BY <1>10, <1>11, <1>12, <1>13 DEF IInv

\* Writing an update of the program's turn.
LEMMA OutUpdate ==
  ASSUME IInv, NEW record, job.by \in Making, job.step < job.size,
         out' = Write(out, UpdateFile(job.step), record),
         record.version \in Version, job.step <= record.version,
         job'.by = job.by, job'.size = job.size, job'.step = job.step + 1, made' = made
  PROVE  OutInv' /\ ProgressInv' /\ AnchorFile \in DOMAIN out'
<1>0. CoreTypes /\ JobInv /\ OutInv /\ ProgressInv
  BY DEF IInv
<1>1. job.step \in Nat /\ job.size \in Nat /\ job.size \in Updates /\ job.run \in Run
  BY <1>0, JobTypes DEF JobInv, Making, Idle
<1>2. job.step \in Version /\ Version \subseteq Nat
  BY <1>1, Versions
<1>3. made.size = job.size /\ made.run = job.run /\ AnchorFile \in DOMAIN out
  BY <1>0 DEF JobInv
<1>4. /\ DOMAIN out' = DOMAIN out \cup {UpdateFile(job.step)}
      /\ out'[UpdateFile(job.step)] = record
      /\ \A g \in DOMAIN out : g # UpdateFile(job.step) => out'[g] = out[g]
  BY DEF Write
<1>5. CanonicalFile \notin DOMAIN out /\ CanonicalFile \notin DOMAIN out'
  BY <1>0, <1>1, <1>4, Files DEF ProgressInv
<1>6. UpdateFile(job.step) \in OutFiles
  BY <1>2 DEF OutFiles
<1>7. OutInv'
  BY <1>0, <1>1, <1>2, <1>3, <1>4, <1>5, <1>6, Files DEF OutInv
<1>8. ProgressInv'
  <2> SUFFICES ASSUME NEW v \in Version, v < job.size
               PROVE  UpdateFile(v) \in DOMAIN out' <=> v < job.step + 1
    BY <1>1, <1>5 DEF ProgressInv
  <2>1. v \in Nat /\ (UpdateFile(v) \in DOMAIN out <=> v < job.step)
    BY <1>0, <1>2 DEF ProgressInv
  <2> QED BY <1>1, <1>4, <2>1, Files
<1> QED BY <1>3, <1>4, <1>7, <1>8

\* The inductive invariant is preserved by ProveUpdate.
LEMMA ProveUpdateStep ==
  ASSUME IInv, ProveUpdate
  PROVE  IInv'
<1>0. CoreTypes /\ JobInv /\ FixtureInv
  BY DEF IInv
<1>1. /\ job.by \in {"prover", "honest-only"} /\ job.step < job.size /\ Steps
      /\ UNCHANGED <<fixture, mark, signed, reused, runs, prepared, made>>
  BY DEF ProveUpdate, history
<1>2. /\ job.step \in Nat /\ job.size \in Nat /\ job.size \in Updates /\ runs \in Nat
  BY <1>0, <1>1, JobTypes DEF JobInv, Idle
<1>3. /\ job'.by = job.by /\ job'.run = job.run /\ job'.size = job.size /\ job'.step = job.step + 1
      /\ job' \in Job
  BY <1>0, <1>1, StepFields
<1>4. PICK record : /\ out' = Write(out, UpdateFile(job.step), record)
                    /\ record.version \in Version /\ job.step <= record.version
  <2>1. PICK v \in Version :
          /\ IsNextUpdate(v)
          /\ LET a == out[AnchorFile]
                 r == fixture[UpdateFile(v)]
             IN out' = Write(out, UpdateFile(job.step),
                             Snark(r.list, r.version, Proof(a, r, AggregationInputs(a, r))))
    BY DEF ProveUpdate
  <2> DEFINE r == fixture[UpdateFile(v)]
             proof == Proof(out[AnchorFile], r, AggregationInputs(out[AnchorFile], r))
  <2>2. out' = Write(out, UpdateFile(job.step), Snark(r.list, r.version, proof))
    BY <2>1
  <2>3. /\ v \in UpdatesIn(FixtureNames) /\ V!Rank(UpdatesIn(FixtureNames), v) = job.step + 1
        /\ UpdateFile(v) \in DOMAIN fixture
    BY <2>1 DEF IsNextUpdate
  <2>4. r.version = v
    BY <1>0, <2>3 DEF FixtureInv
  <2>5. v \in Nat /\ job.step + 1 <= v + 1
    BY <2>3, UpdateRank, Versions
  <2> HIDE DEF r, proof
  <2>6. Snark(r.list, r.version, proof).version = r.version
    BY DEF Snark, V!SnarkRecord
  <2>7. job.step <= v
    BY <1>2, <2>5
  <2> QED BY <2>2, <2>4, <2>6, <2>7
<1>5. OutInv' /\ ProgressInv' /\ AnchorFile \in DOMAIN out'
  BY <1>1, <1>3, <1>4, OutUpdate DEF Making
<1>6. JobInv'
  BY <1>0, <1>1, <1>2, <1>3, <1>5 DEF JobInv, Idle, Signing, InMemory, Making, HasUpdates
<1>7. /\ SignedInv' /\ NoSlotTwice'
      /\ (\A s \in signed : s.key \in Key /\ s.slot \in Genesis .. Genesis + KeySlots)'
      /\ (reused \in BOOLEAN)'
  BY <1>1, <1>2, <1>3, SignedFrame DEF Bare
<1>8. FixtureInv'
  BY <1>0, <1>1, <1>3, FixtureFrame
<1>9. CoreTypes'
  BY <1>0, <1>1, <1>3, <1>5, <1>7, <1>8 DEF CoreTypes, FixtureInv, OutInv
<1> QED BY <1>5, <1>6, <1>7, <1>8, <1>9 DEF IInv

\* The inductive invariant is preserved by WriteCanonical.
LEMMA WriteCanonicalStep ==
  ASSUME IInv, WriteCanonical
  PROVE  IInv'
<1>0. CoreTypes /\ JobInv /\ FixtureInv /\ OutInv /\ ProgressInv
  BY DEF IInv
<1>1. /\ job.by \in Making /\ job.step = job.size
      /\ out' = Write(out, CanonicalFile, out[UpdateFile(job.size - 1)])
      /\ UNCHANGED <<fixture, mark, signed, reused, runs, prepared>>
  BY DEF WriteCanonical, Making
<1>2. /\ job.step \in Nat /\ job.size \in Nat /\ job.size \in Updates /\ runs \in Nat /\ job.run \in Run
      /\ made.size = job.size /\ made.run = job.run /\ AnchorFile \in DOMAIN out /\ made.by = job.by
      /\ made \in Made /\ made.run \in Nat
  BY <1>0, <1>1, JobTypes DEF JobInv, Idle, Making, CoreTypes
<1>3. made' \in Made /\ made'.by = made.by /\ made'.run = made.run /\ made'.size = made.size
  <2>1. CASE made' = made
    BY <1>2, <2>1
  <2>2. CASE made' # made
    <3>1. made' = [made EXCEPT !.done = TRUE]
      BY <2>2 DEF WriteCanonical
    <3> QED BY <1>2, <3>1, HistoryDone
  <2> QED BY <2>1, <2>2
<1>4. /\ DOMAIN out' = DOMAIN out \cup {CanonicalFile}
      /\ out'[CanonicalFile] = out[UpdateFile(job.size - 1)]
      /\ \A g \in DOMAIN out : g # CanonicalFile => out'[g] = out[g]
  <2>1. out' = Write(out, CanonicalFile, out[UpdateFile(job.size - 1)])
    BY <1>1
  <2> QED BY <2>1 DEF Write
<1>5. HasUpdates(out, job.size)
  <2> SUFFICES ASSUME NEW v \in Version PROVE UpdateFile(v) \in DOMAIN out <=> v < job.size
    BY DEF HasUpdates
  <2>1. v < job.size => UpdateFile(v) \in DOMAIN out
    BY <1>0, <1>1 DEF ProgressInv
  <2>2. UpdateFile(v) \in DOMAIN out => v < job.size
    BY <1>0, <1>2 DEF OutInv
  <2> QED BY <2>1, <2>2
<1>6. OutInv'
  <2>1. job.size - 1 \in Version /\ job.size - 1 < job.size
    BY <1>2, Versions
  <2>2. /\ UpdateFile(job.size - 1) \in DOMAIN out
        /\ out[UpdateFile(job.size - 1)].version \in Version
        /\ job.size - 1 <= out[UpdateFile(job.size - 1)].version
    BY <1>0, <1>5, <2>1 DEF OutInv, HasUpdates
  <2>4. \A c \in Control : AttackFile(c) \in DOMAIN out' =>
          made'.by \in {"prover", "self"} /\ (c = LastControl(made'.by) => made'.done)
    <3> SUFFICES ASSUME NEW c \in Control, AttackFile(c) \in DOMAIN out'
                 PROVE  made'.by \in {"prover", "self"} /\ (c = LastControl(made'.by) => made'.done)
      OBVIOUS
    <3>1. made.by \in {"prover", "self"} /\ (c = LastControl(made.by) => made.done)
      BY <1>0, <1>4, Files DEF OutInv
    <3>2. made' = made
      BY <1>2, <3>1 DEF WriteCanonical
    <3> QED BY <3>1, <3>2
  <2> QED BY <1>0, <1>2, <1>3, <1>4, <2>2, <2>4, Files DEF OutInv, OutFiles
<1>7. CASE job.by = "honest-only"
  <2>1. job' = NoJob
    BY <1>7 DEF WriteCanonical, Ends
  <2>2. JobInv' /\ ProgressInv' /\ job' \in Job
    BY <1>0, <1>1, <1>2, <1>3, <2>1, JobEnds DEF JobInv
  <2>3. FixtureInv'
    BY <1>0, <1>1, <2>1, NoJobFields, FixtureFrame
  <2>4. /\ SignedInv' /\ NoSlotTwice'
        /\ (\A s \in signed : s.key \in Key /\ s.slot \in Genesis .. Genesis + KeySlots)'
        /\ (reused \in BOOLEAN)'
    BY <1>1, <1>2, <2>1, NoJobFields, SignedFrame DEF Bare
  <2>5. CoreTypes'
    BY <1>0, <1>1, <1>3, <1>6, <2>2, <2>3, <2>4 DEF CoreTypes, FixtureInv, OutInv
  <2> QED BY <1>6, <2>2, <2>3, <2>4, <2>5 DEF IInv
<1>8. CASE job.by # "honest-only"
  <2>1. Steps /\ made' = made
    BY <1>8 DEF WriteCanonical
  <2>2. /\ job'.by = job.by /\ job'.run = job.run /\ job'.size = job.size /\ job'.step = job.step + 1
        /\ job' \in Job
    BY <1>0, <2>1, StepFields
  <2>3. JobInv'
    <3>1. AnchorFile \in DOMAIN out' /\ job'.step <= job'.size + 6
      BY <1>1, <1>2, <1>4, <2>2
    <3> QED BY <1>0, <1>1, <1>8, <2>1, <2>2, <3>1 DEF JobInv, Idle, Signing, InMemory, Making, HasUpdates
  <2>4. ProgressInv'
    <3>1. ASSUME NEW v \in Version, v < job.size PROVE UpdateFile(v) \in DOMAIN out' /\ v < job.step + 1
      <4>1. UpdateFile(v) \in DOMAIN out'
        BY <1>4, <1>5, <3>1 DEF HasUpdates
      <4>2. v \in Nat
        BY Versions
      <4> QED BY <1>1, <1>2, <3>1, <4>1, <4>2
    <3> QED BY <1>1, <1>2, <2>2, <3>1 DEF ProgressInv
  <2>5. FixtureInv'
    BY <1>0, <1>1, <2>2, FixtureFrame
  <2>6. /\ SignedInv' /\ NoSlotTwice'
        /\ (\A s \in signed : s.key \in Key /\ s.slot \in Genesis .. Genesis + KeySlots)'
        /\ (reused \in BOOLEAN)'
    <3>1. CASE job.by = "self"
      <4>1. Frontier(job) = job.size /\ Frontier(job') = job.size
        BY <1>1, <1>2, <2>2, <3>1 DEF Frontier
      <4>2. OutsidersPending(job)
        BY <1>1, <1>2, <3>1 DEF OutsidersPending
      <4> QED BY <1>1, <1>2, <2>2, <3>1, <4>1, <4>2, SignsNothing DEF Bare
    <3>2. CASE job.by # "self"
      BY <1>1, <1>2, <2>2, <3>2, SignedFrame DEF Bare, Making
    <3> QED BY <3>1, <3>2
  <2>7. CoreTypes'
    BY <1>0, <1>1, <1>3, <1>6, <2>2, <2>5, <2>6 DEF CoreTypes, FixtureInv, OutInv
  <2> QED BY <1>6, <2>3, <2>4, <2>5, <2>6, <2>7 DEF IInv
<1> QED BY <1>7, <1>8

\* Writing a control, the last one when the run is done.
LEMMA OutControl ==
  ASSUME IInv, NEW c \in Control, NEW record, job.by \in {"prover", "self"}, job.step > job.size,
         out' = Write(out, AttackFile(c), record),
         made' = [made EXCEPT !.done = (c = LastControl(job.by))]
  PROVE  /\ OutInv' /\ AnchorFile \in DOMAIN out'
         /\ made' \in Made /\ made'.by = made.by /\ made'.run = made.run /\ made'.size = made.size
         /\ made'.done = (c = LastControl(job.by))
         /\ \A f \in DOMAIN out' : f # AttackFile(c) => f \in DOMAIN out
         /\ DOMAIN out \subseteq DOMAIN out'
<1>0. CoreTypes /\ JobInv /\ OutInv
  BY DEF IInv
<1>1. made \in Made /\ made.by = job.by /\ made.run = job.run /\ made.size = job.size /\ ~made.done
      /\ AnchorFile \in DOMAIN out
  BY <1>0 DEF CoreTypes, JobInv, Making
<1>2. /\ made' \in Made /\ made'.by = made.by /\ made'.run = made.run /\ made'.size = made.size
      /\ made'.done = (c = LastControl(job.by))
  <2> DEFINE last == (c = LastControl(job.by))
  <2>1. last \in BOOLEAN /\ made' = [made EXCEPT !.done = last]
    OBVIOUS
  <2> HIDE DEF last
  <2>2. /\ made' \in Made /\ made'.by = made.by /\ made'.run = made.run /\ made'.size = made.size
        /\ made'.done = last
    <3>1. made \in Made
      BY <1>1
    <3> QED BY <2>1, <3>1 DEF Made
  <2> QED BY <2>2 DEF last
<1>3. /\ DOMAIN out' = DOMAIN out \cup {AttackFile(c)}
      /\ \A g \in DOMAIN out : g # AttackFile(c) => out'[g] = out[g]
  BY DEF Write
<1>4. ASSUME NEW d \in Control, AttackFile(d) \in DOMAIN out'
      PROVE  made'.by \in {"prover", "self"} /\ (d = LastControl(made'.by) => made'.done)
  <2>1. CASE d = c
    BY <1>1, <1>2, <2>1
  <2>2. CASE d # c
    <3>1. AttackFile(d) \in DOMAIN out
      BY <1>3, <1>4, <2>2, Files
    <3>2. d # LastControl(made.by)
      BY <1>0, <1>1, <3>1 DEF OutInv
    <3> QED BY <1>1, <1>2, <3>2
  <2> QED BY <2>1, <2>2
<1>5. AttackFile(c) \in OutFiles
  BY DEF OutFiles
<1>7. OutInv'
  BY <1>0, <1>1, <1>2, <1>3, <1>4, <1>5, Files DEF OutInv
<1> QED BY <1>1, <1>2, <1>3, <1>7

\* The inductive invariant is preserved by ProveControl.
LEMMA ProveControlStep ==
  ASSUME IInv, ProveControl
  PROVE  IInv'
<1>0. CoreTypes /\ JobInv /\ FixtureInv /\ OutInv /\ ProgressInv
  BY DEF IInv
<1> DEFINE c == ProverControls[job.step - job.size]
<1>1. /\ job.by = "prover" /\ job.step > job.size
      /\ UNCHANGED <<fixture, mark, signed, reused, runs, prepared>>
  BY DEF ProveControl
<1>2. /\ job.step \in Nat /\ job.size \in Nat /\ job.size \in Updates /\ runs \in Nat
      /\ job.step <= job.size + 6 /\ made.run \in Nat
  BY <1>0, <1>1, JobTypes DEF JobInv, Idle, Making
<1>3. c \in Control /\ (c = "outsider" <=> job.step = job.size + 6)
  <2>1. job.step - job.size \in 1 .. 6
    BY <1>1, <1>2
  <2> QED BY <2>1, <1>2 DEF ProverControls, Control
<1>4. \/ Ends /\ UNCHANGED <<out, made>>
      \/ /\ \E record : out' = Write(out, AttackFile(c), record)
         /\ IF c = "outsider" THEN Ends ELSE Steps
         /\ made' = [made EXCEPT !.done = (c = "outsider")]
  BY DEF ProveControl, ProverControls
<1> HIDE DEF c
<1>5. /\ OutInv' /\ made' \in Made /\ made'.by = made.by /\ made'.run = made.run /\ made'.size = made.size
      /\ DOMAIN out \subseteq DOMAIN out'
      /\ \A f \in DOMAIN out' : f # AttackFile(c) => f \in DOMAIN out
  <2>1. CASE UNCHANGED <<out, made>>
    BY <1>0, <2>1, OutFrame DEF CoreTypes
  <2>2. CASE ~UNCHANGED <<out, made>>
    <3>1. PICK record : out' = Write(out, AttackFile(c), record)
      BY <1>4, <2>2
    <3>2. made' = [made EXCEPT !.done = (c = LastControl(job.by))]
      BY <1>1, <1>4, <2>2 DEF LastControl
    <3> QED BY <1>1, <1>3, <3>1, <3>2, OutControl
  <2> QED BY <2>1, <2>2
<1>6. CASE Ends
  <2>1. job' = NoJob
    BY <1>6 DEF Ends
  <2>2. JobInv' /\ ProgressInv' /\ job' \in Job
    BY <1>0, <1>1, <1>2, <1>5, <2>1, JobEnds DEF JobInv
  <2>3. FixtureInv'
    BY <1>0, <1>1, <2>1, NoJobFields, FixtureFrame
  <2>4. /\ SignedInv' /\ NoSlotTwice'
        /\ (\A s \in signed : s.key \in Key /\ s.slot \in Genesis .. Genesis + KeySlots)'
        /\ (reused \in BOOLEAN)'
    BY <1>1, <1>2, <2>1, NoJobFields, SignedFrame DEF Bare
  <2>5. CoreTypes'
    BY <1>0, <1>1, <1>5, <2>2, <2>3, <2>4 DEF CoreTypes, FixtureInv, OutInv
  <2> QED BY <1>5, <2>2, <2>3, <2>4, <2>5 DEF IInv
<1>7. CASE ~Ends
  <2>1. Steps /\ c # "outsider" /\ job.step < job.size + 6
    BY <1>2, <1>3, <1>4, <1>7
  <2>2. /\ job'.by = job.by /\ job'.run = job.run /\ job'.size = job.size /\ job'.step = job.step + 1
        /\ job' \in Job
    BY <1>0, <2>1, StepFields
  <2>3. ~made'.done
    <3>1. made' = [made EXCEPT !.done = (c = "outsider")]
      BY <1>4, <1>7
    <3>2. made' = [made EXCEPT !.done = FALSE]
      BY <2>1, <3>1
    <3> QED BY <1>0, <3>2, HistoryDone DEF CoreTypes
  <2>4. JobInv'
    <3>1. AnchorFile \in DOMAIN out' /\ job'.step <= job'.size + 6
      BY <1>0, <1>1, <1>2, <1>5, <2>1, <2>2 DEF JobInv, Making
    <3> QED BY <1>0, <1>1, <1>5, <2>2, <2>3, <3>1 DEF JobInv, Idle, Signing, InMemory, Making, HasUpdates
  <2>5. ProgressInv'
    <3>1. ASSUME NEW v \in Version, v < job.size PROVE UpdateFile(v) \in DOMAIN out' /\ v < job.step + 1
      BY <1>0, <1>1, <1>2, <1>5, <3>1, Versions DEF ProgressInv, Making
    <3> QED BY <1>1, <1>2, <2>2, <3>1 DEF ProgressInv
  <2>6. FixtureInv'
    BY <1>0, <1>1, <2>2, FixtureFrame
  <2>7. /\ SignedInv' /\ NoSlotTwice'
        /\ (\A s \in signed : s.key \in Key /\ s.slot \in Genesis .. Genesis + KeySlots)'
        /\ (reused \in BOOLEAN)'
    BY <1>1, <1>2, <2>2, SignedFrame DEF Bare
  <2>8. CoreTypes'
    BY <1>0, <1>1, <1>5, <2>2, <2>6, <2>7 DEF CoreTypes, FixtureInv, OutInv
  <2> QED BY <1>5, <2>4, <2>5, <2>6, <2>7, <2>8 DEF IInv
<1> QED BY <1>6, <1>7

-----------------------------------------------------------------------------
(* prover by itself                                                        *)

\* What a signature of an outsider says.
LEMMA OutsiderSignaturesOf ==
  ASSUME NEW run \in Run, NEW I \in SUBSET Member, NEW m, NEW v \in Nat, v <= KeySlots,
         NEW s \in Signatures(Keys(run, TRUE, I), m, V!SlotFor(Anchor(run), v))
  PROVE  s.key \in Key /\ s.key.run = run /\ s.key.outsider /\ s.slot \in Genesis .. Genesis + KeySlots
<1> DEFINE o == TRUE
<1>1. s \in Signatures(Keys(run, o, I), m, V!SlotFor(Anchor(run), v)) /\ o \in BOOLEAN
  OBVIOUS
<1> HIDE DEF o
<1>2. s.key \in Key /\ s.key.run = run /\ s.key.outsider = o /\ s.slot \in Genesis .. Genesis + KeySlots
  BY <1>1, SignaturesOf
<1> QED BY <1>2 DEF o

\* What the signatures of an update say.
LEMMA UpdateSignaturesOf ==
  ASSUME NEW list, NEW v \in Nat, v <= KeySlots, job.run \in Run, NEW s \in UpdateSignatures(list, v)
  PROVE  /\ s.key \in Key /\ s.key.run = job.run /\ ~s.key.outsider
         /\ s.slot = Genesis + v /\ s.slot \in Genesis .. Genesis + KeySlots
<1> DEFINE m == Message(Anchor(job.run), list, v)
           I == Rotating(v)
           o == FALSE
<1>1. /\ s \in Signatures(Keys(job.run, o, I), m, V!SlotFor(Anchor(job.run), v))
      /\ I \in SUBSET Member /\ o \in BOOLEAN
  BY Quorums DEF UpdateSignatures
<1> HIDE DEF m, I, o
<1>2. /\ s.key \in Key /\ s.key.run = job.run /\ s.key.outsider = o
      /\ s.slot = Genesis + v /\ s.slot \in Genesis .. Genesis + KeySlots
  BY <1>1, SignaturesOf
<1> QED BY <1>2 DEF o

\* What the signatures of a control say: the outsiders sign some slot, the members the
\* one of the control.
LEMMA OwnSignaturesOf ==
  ASSUME NEW c \in Control, job.run \in Run, job.size \in Updates, NEW s \in OwnSignatures(c)
  PROVE  /\ s.key \in Key /\ s.key.run = job.run /\ s.slot \in Genesis .. Genesis + KeySlots
         /\ s.key.outsider <=> c = "outsider"
         /\ c # "outsider" => s.slot = Genesis + (IF c = "slot" THEN job.size + 1
                                                  ELSE IF c = "version" THEN KeySlots ELSE job.size)
<1>1. CASE c = "outsider"
  <2> DEFINE m == Message(Anchor(job.run), OutsiderList, 0)
             I == FirstT
             v == 0
  <2>1. Genesis = V!SlotFor(Anchor(job.run), v) /\ v \in Nat /\ v <= KeySlots
    BY Slots, Params
  <2>2. s \in Signatures(Keys(job.run, TRUE, I), m, V!SlotFor(Anchor(job.run), v)) /\ I \in SUBSET Member
    BY <1>1, <2>1, Quorums DEF OwnSignatures
  <2> HIDE DEF m, I, v
  <2>3. s.key \in Key /\ s.key.run = job.run /\ s.key.outsider /\ s.slot \in Genesis .. Genesis + KeySlots
    BY <2>1, <2>2, OutsiderSignaturesOf
  <2> QED BY <1>1, <2>3
<1>2. CASE c # "outsider"
  <2>1. SourceOf(c) \in {"honest", "slot", "version"}
    BY <1>2 DEF SourceOf, Control
  <2>2. s \in Signs(Anchor(job.run), job.run, job.list, job.size, SourceOf(c))
    BY <1>2 DEF OwnSignatures
  <2>3. /\ s.key \in Key /\ s.key.run = job.run /\ ~s.key.outsider
        /\ s.slot = Genesis + (IF SourceOf(c) = "honest" THEN job.size
                               ELSE IF SourceOf(c) = "slot" THEN job.size + 1 ELSE KeySlots)
        /\ s.slot \in Genesis .. Genesis + KeySlots
    BY <2>1, <2>2, SignsOf
  <2>4. /\ SourceOf(c) = "slot" <=> c = "slot"
        /\ SourceOf(c) = "version" <=> c = "version"
    BY <1>2 DEF SourceOf, Control
  <2> QED BY <1>2, <2>1, <2>3, <2>4
<1> QED BY <1>1, <1>2

\* The inductive invariant is preserved by SelfStart.
LEMMA SelfStartStep ==
  ASSUME IInv, SelfStart
  PROVE  IInv'
<1>0. CoreTypes /\ JobInv /\ FixtureInv
  BY DEF IInv
<1>1. PICK n \in Updates :
        /\ Idle /\ runs < MaxRuns
        /\ runs' = runs + 1
        /\ out' = IF T >= 2 THEN Write(Clear(out), AnchorFile, Anchor(runs')) ELSE Clear(out)
        /\ job' = IF T >= 2 THEN [NoJob EXCEPT !.by = "self", !.run = runs', !.size = n] ELSE NoJob
        /\ made' = [by |-> "self", run |-> runs', size |-> n, done |-> FALSE]
        /\ UNCHANGED <<fixture, mark, signed, reused, prepared>>
  BY DEF SelfStart
<1>2. Idle /\ runs < MaxRuns /\ runs' = runs + 1 /\ UNCHANGED <<fixture, mark, signed, reused, prepared>>
  BY <1>1
<1>3. /\ runs \in Nat /\ runs' \in Nat /\ runs' \in Run /\ runs' \in 0 .. MaxRuns /\ runs <= runs'
      /\ prepared.run \in Nat /\ prepared.run <= runs' /\ runs' > runs
  BY <1>0, <1>2, JobTypes, Params DEF Run, JobInv
<1>4. made' = [by |-> "self", run |-> runs', size |-> n, done |-> FALSE]
  BY <1>1
<1>5. /\ made'.by = "self" /\ made'.run = runs' /\ made'.size = n /\ ~made'.done /\ made' \in Made
  BY <1>3, <1>4 DEF Made, Program
<1>6. CASE T >= 2
  <2>1. /\ job' = [NoJob EXCEPT !.by = "self", !.run = runs', !.size = n]
        /\ out' = Write(Clear(out), AnchorFile, Anchor(runs'))
    BY <1>1, <1>6
  <2>2. /\ job'.by = "self" /\ job'.run = runs' /\ job'.size = n /\ job'.step = 0 /\ job' \in Job
    <3>1. "self" \in Program /\ runs' \in Run \cup {0} /\ n \in Updates
      BY <1>3 DEF Program
    <3> QED BY <2>1, <3>1, StartFields
  <2>3. DOMAIN out' = {AnchorFile} /\ out'[AnchorFile] = Anchor(runs')
    <3>1. out' = Write(Clear(out), AnchorFile, Anchor(runs'))
      BY <2>1
    <3> QED BY <3>1 DEF Write, Clear, Empty
  <2>4. JobInv'
    <3>1. n \in Nat /\ 0 <= n + 6
      BY Params
    <3> QED BY <1>2, <1>3, <1>5, <1>6, <2>2, <2>3, <3>1 DEF JobInv, Idle, Signing, InMemory, Making
  <2>5. OutInv'
    BY <1>3, <1>5, <2>3, Files DEF OutInv, OutFiles
  <2>6. ProgressInv'
    <3>1. \A v \in Version : ~(v < 0)
      BY Versions
    <3> QED BY <2>2, <2>3, <3>1, Files DEF ProgressInv
  <2>7. FixtureInv'
    BY <1>0, <1>2, <2>2, FixtureFrame
  <2>8. /\ SignedInv' /\ NoSlotTwice'
        /\ (\A s \in signed : s.key \in Key /\ s.slot \in Genesis .. Genesis + KeySlots)'
        /\ (reused \in BOOLEAN)'
    BY <1>2, <1>3, <2>2, SignedFrame
  <2>9. CoreTypes'
    BY <1>0, <1>2, <1>3, <1>5, <2>2, <2>5, <2>7, <2>8 DEF CoreTypes, FixtureInv, OutInv
  <2> QED BY <2>4, <2>5, <2>6, <2>7, <2>8, <2>9 DEF IInv
<1>7. CASE ~(T >= 2)
  <2>1. job' = NoJob /\ out' = Clear(out)
    BY <1>1, <1>7
  <2>2. DOMAIN out' = {}
    BY <2>1 DEF Clear, Empty
  <2>3. JobInv' /\ ProgressInv' /\ job' \in Job
    BY <1>0, <1>2, <1>3, <1>5, <2>1, JobEnds
  <2>4. OutInv'
    BY <2>2 DEF OutInv
  <2>5. FixtureInv'
    BY <1>0, <1>2, <2>1, NoJobFields, FixtureFrame
  <2>6. /\ SignedInv' /\ NoSlotTwice'
        /\ (\A s \in signed : s.key \in Key /\ s.slot \in Genesis .. Genesis + KeySlots)'
        /\ (reused \in BOOLEAN)'
    BY <1>2, <1>3, <2>1, NoJobFields, SignedFrame DEF Bare
  <2>7. CoreTypes'
    BY <1>0, <1>2, <1>3, <1>5, <2>3, <2>4, <2>5, <2>6 DEF CoreTypes, FixtureInv, OutInv
  <2> QED BY <2>3, <2>4, <2>5, <2>6, <2>7 DEF IInv
<1> QED BY <1>6, <1>7

\* The list of the next version.
LEMMA NextListType ==
  ASSUME CoreTypes, job.run \in Run
  PROVE  NextList \in Seq(Entry)
<1>1. job.list \in Seq(Entry) /\ job.step \in Nat /\ 0 \in Nat
  BY JobTypes
<1> QED BY <1>1, AdvanceListType DEF NextList

\* Signing an update, with the frontier one version on.
LEMMA SignsUpdate ==
  ASSUME IInv, job.by \in {"self", "demo"}, job.step < job.size,
         Sign(UpdateSignatures(NextList, job.step)), runs' = runs,
         job'.by = job.by, job'.run = job.run, job'.size = job.size, job'.step = job.step + 1
  PROVE  /\ SignedInv' /\ NoSlotTwice'
         /\ (\A s \in signed : s.key \in Key /\ s.slot \in Genesis .. Genesis + KeySlots)'
         /\ (reused \in BOOLEAN)'
<1>0. CoreTypes /\ JobInv
  BY DEF IInv
<1>1. /\ job.step \in Nat /\ job.size \in Nat /\ job.run \in Run /\ job.size \in Updates /\ runs \in Nat
      /\ job.run = runs
  BY <1>0, JobTypes DEF JobInv, Idle, Signing
<1>2. job.step <= KeySlots
  BY <1>1, Params
<1> DEFINE new == UpdateSignatures(NextList, job.step)
<1>3. \A s \in new : /\ s.key \in Key /\ s.key.run = job.run /\ ~s.key.outsider
                     /\ s.slot = Genesis + job.step /\ s.slot \in Genesis .. Genesis + KeySlots
  BY <1>1, <1>2, UpdateSignaturesOf
<1>4. Sign(new)
  OBVIOUS
<1> HIDE DEF new
<1>5. Frontier(job) = job.step /\ Frontier(job') = job.step + 1
  BY <1>1 DEF Frontier
<1>6. OutsidersPending(job)
  BY <1>1 DEF OutsidersPending
<1> QED BY <1>1, <1>3, <1>4, <1>5, <1>6, Params, SignsAhead DEF Bare

\* The inductive invariant is preserved by SelfUpdate.
LEMMA SelfUpdateStep ==
  ASSUME IInv, SelfUpdate
  PROVE  IInv'
<1>0. CoreTypes /\ JobInv /\ FixtureInv
  BY DEF IInv
<1>1. /\ job.by = "self" /\ job.step < job.size
      /\ Sign(UpdateSignatures(NextList, job.step))
      /\ UNCHANGED <<fixture, mark, runs, prepared, made>>
  BY DEF SelfUpdate, history
<1>2. job' = [job EXCEPT !.step = @ + 1, !.list = NextList]
  BY DEF SelfUpdate
<1>3. /\ job.step \in Nat /\ job.size \in Nat /\ job.run \in Run /\ job.size \in Updates /\ runs \in Nat
  BY <1>0, <1>1, JobTypes DEF JobInv, Idle, Signing
<1>4. /\ job'.by = job.by /\ job'.run = job.run /\ job'.size = job.size /\ job'.step = job.step + 1
      /\ job' \in Job
  BY <1>0, <1>2, <1>3, NextListType, UpdateFields
<1>5. PICK record : out' = Write(out, UpdateFile(job.step), record) /\ record.version = job.step
  <2> DEFINE a == Anchor(job.run)
             r == Raw(NextList, job.step, UpdateSignatures(NextList, job.step))
             proof == Proof(a, r, AggregationInputs(a, r))
  <2>1. out' = Write(out, UpdateFile(job.step), Snark(r.list, r.version, proof))
    BY DEF SelfUpdate
  <2>2. r.version = job.step
    BY DEF Raw, V!StatusListNew, V!RawRecord
  <2> HIDE DEF r, proof
  <2>3. Snark(r.list, r.version, proof).version = r.version
    BY DEF Snark, V!SnarkRecord
  <2> QED BY <2>1, <2>2, <2>3
<1>6. OutInv' /\ ProgressInv' /\ AnchorFile \in DOMAIN out'
  <2>1. job.step \in Version /\ job.step <= job.step
    BY <1>1, <1>3, Versions
  <2> QED BY <1>1, <1>4, <1>5, <2>1, OutUpdate DEF Making
<1>7. JobInv'
  BY <1>0, <1>1, <1>3, <1>4, <1>6 DEF JobInv, Idle, Signing, InMemory, Making
<1>8. /\ SignedInv' /\ NoSlotTwice'
      /\ (\A s \in signed : s.key \in Key /\ s.slot \in Genesis .. Genesis + KeySlots)'
      /\ (reused \in BOOLEAN)'
  BY <1>1, <1>4, SignsUpdate
<1>9. FixtureInv'
  BY <1>0, <1>1, <1>4, FixtureFrame
<1>10. CoreTypes'
  BY <1>0, <1>1, <1>4, <1>6, <1>8, <1>9 DEF CoreTypes, FixtureInv, OutInv
<1> QED BY <1>6, <1>7, <1>8, <1>9, <1>10 DEF IInv

\* The inductive invariant is preserved by SelfControl.
LEMMA SelfControlStep ==
  ASSUME IInv, SelfControl
  PROVE  IInv'
<1>0. CoreTypes /\ JobInv /\ FixtureInv /\ OutInv /\ ProgressInv
  BY DEF IInv
<1> DEFINE c == SelfControls[job.step - job.size]
           new == IF c \in {"proofbody", "short"} THEN {} ELSE OwnSignatures(c)
<1>1. /\ job.by = "self" /\ job.step > job.size
      /\ Sign(new) /\ (IF c = "version" THEN Ends ELSE Steps)
      /\ UNCHANGED <<fixture, mark, runs, prepared>>
  BY DEF SelfControl, SelfControls
<1>2. /\ job.step \in Nat /\ job.size \in Nat /\ job.size \in Updates /\ runs \in Nat /\ job.run \in Run
      /\ job.step <= job.size + 6 /\ made.run \in Nat /\ job.run = runs
  BY <1>0, <1>1, JobTypes DEF JobInv, Idle, Making, Signing
<1>3. /\ c \in Control /\ (c = "version" <=> job.step = job.size + 6)
      /\ c = "outsider" <=> job.step = job.size + 5
      /\ c = "slot" <=> job.step = job.size + 4
      /\ c = "tampered" <=> job.step = job.size + 1
  <2>1. job.step - job.size \in 1 .. 6
    BY <1>1, <1>2
  <2> QED BY <2>1, <1>2 DEF SelfControls, Control
<1>4. PICK record : out' = Write(out, AttackFile(c), record)
  BY DEF SelfControl
<1>5. made' = [made EXCEPT !.done = (c = LastControl(job.by))]
  BY <1>1 DEF SelfControl, SelfControls, LastControl
<1>6. \A s \in new :
        /\ s.key \in Key /\ s.key.run = job.run /\ s.slot \in Genesis .. Genesis + KeySlots
        /\ s.key.outsider <=> c = "outsider"
        /\ c # "outsider" => s.slot = Genesis + (IF c = "slot" THEN job.size + 1
                                                 ELSE IF c = "version" THEN KeySlots ELSE job.size)
        /\ c \notin {"proofbody", "short"}
  BY <1>2, <1>3, OwnSignaturesOf
<1> HIDE DEF c, new
<1>7. /\ OutInv' /\ AnchorFile \in DOMAIN out'
      /\ made' \in Made /\ made'.by = made.by /\ made'.run = made.run /\ made'.size = made.size
      /\ made'.done = (c = LastControl(job.by))
      /\ \A f \in DOMAIN out' : f # AttackFile(c) => f \in DOMAIN out
      /\ DOMAIN out \subseteq DOMAIN out'
  BY <1>1, <1>3, <1>4, <1>5, OutControl
<1>8. job.size + 1 < KeySlots /\ KeySlots \in Nat /\ Genesis \in Nat
  BY <1>2, Params
<1>9. /\ Frontier(job) = (IF job.step = job.size + 1 THEN job.size
                          ELSE IF job.step <= job.size + 4 THEN job.size + 1 ELSE KeySlots)
      /\ OutsidersPending(job) <=> job.step <= job.size + 5
  BY <1>1, <1>2 DEF Frontier, OutsidersPending
<1>10. \A s \in new : /\ ~s.key.outsider => s.slot >= Genesis + Frontier(job)
                      /\ s.key.outsider => OutsidersPending(job)
  <2> SUFFICES ASSUME NEW s \in new
               PROVE  /\ ~s.key.outsider => s.slot >= Genesis + Frontier(job)
                      /\ s.key.outsider => OutsidersPending(job)
    OBVIOUS
  <2>1. c \in {"tampered", "slot", "outsider", "version"}
    BY <1>3, <1>6 DEF Control
  <2> QED BY <1>2, <1>3, <1>6, <1>8, <1>9, <2>1
<1>11. CASE c = "version"
  <2>1. job' = NoJob
    BY <1>1, <1>11 DEF Ends
  <2>2. JobInv' /\ ProgressInv' /\ job' \in Job
    BY <1>0, <1>1, <1>2, <1>7, <2>1, JobEnds DEF JobInv
  <2>3. FixtureInv'
    BY <1>0, <1>1, <2>1, NoJobFields, FixtureFrame
  <2>4. /\ SignedInv' /\ NoSlotTwice'
        /\ (\A s \in signed : s.key \in Key /\ s.slot \in Genesis .. Genesis + KeySlots)'
        /\ (reused \in BOOLEAN)'
    BY <1>1, <1>2, <1>6, <1>10, <2>1, NoJobFields, SignsAhead DEF Bare
  <2>5. CoreTypes'
    BY <1>0, <1>1, <1>7, <2>2, <2>3, <2>4 DEF CoreTypes, FixtureInv, OutInv
  <2> QED BY <1>7, <2>2, <2>3, <2>4, <2>5 DEF IInv
<1>12. CASE c # "version"
  <2>1. Steps /\ job.step < job.size + 6
    BY <1>1, <1>2, <1>3, <1>12
  <2>2. /\ job'.by = job.by /\ job'.run = job.run /\ job'.size = job.size /\ job'.step = job.step + 1
        /\ job' \in Job
    BY <1>0, <2>1, StepFields
  <2>3. ~made'.done
    BY <1>1, <1>7, <1>12 DEF LastControl
  <2>4. JobInv'
    <3>1. job'.step <= job'.size + 6
      BY <1>2, <2>1, <2>2
    <3> QED BY <1>0, <1>1, <1>7, <2>2, <2>3, <3>1 DEF JobInv, Idle, Signing, InMemory, Making
  <2>5. ProgressInv'
    <3>1. ASSUME NEW v \in Version, v < job.size PROVE UpdateFile(v) \in DOMAIN out' /\ v < job.step + 1
      BY <1>0, <1>1, <1>2, <1>7, <3>1, Versions DEF ProgressInv, Making
    <3> QED BY <1>1, <1>2, <2>2, <3>1 DEF ProgressInv
  <2>6. FixtureInv'
    BY <1>0, <1>1, <2>2, FixtureFrame
  <2>7. /\ SignedInv' /\ NoSlotTwice'
        /\ (\A s \in signed : s.key \in Key /\ s.slot \in Genesis .. Genesis + KeySlots)'
        /\ (reused \in BOOLEAN)'
    <3>1. /\ Frontier(job') = (IF job.step <= job.size + 3 THEN job.size + 1 ELSE KeySlots)
          /\ OutsidersPending(job') <=> job.step <= job.size + 4
      BY <1>1, <1>2, <2>2 DEF Frontier, OutsidersPending
    <3>2. \A s \in new : /\ ~s.key.outsider => s.slot < Genesis + Frontier(job')
                         /\ s.key.outsider => ~OutsidersPending(job')
      <4> SUFFICES ASSUME NEW s \in new
                   PROVE  /\ ~s.key.outsider => s.slot < Genesis + Frontier(job')
                          /\ s.key.outsider => ~OutsidersPending(job')
        OBVIOUS
      <4>1. c \in {"tampered", "slot", "outsider"}
        BY <1>3, <1>6, <1>12 DEF Control
      <4> QED BY <1>2, <1>3, <1>6, <1>8, <3>1, <4>1
    <3>3. /\ Frontier(job) \in Nat /\ Frontier(job') \in Nat /\ Frontier(job) <= Frontier(job')
          /\ OutsidersPending(job') => OutsidersPending(job)
      BY <1>1, <1>2, <1>8, <1>9, <3>1
    <3> QED BY <1>1, <1>2, <1>6, <1>10, <2>2, <3>2, <3>3, SignsAhead DEF Bare
  <2>8. CoreTypes'
    BY <1>0, <1>1, <1>7, <2>2, <2>6, <2>7 DEF CoreTypes, FixtureInv, OutInv
  <2> QED BY <1>7, <2>4, <2>5, <2>6, <2>7, <2>8 DEF IInv
<1> QED BY <1>11, <1>12

-----------------------------------------------------------------------------
(* The demo and raw_agg by itself                                          *)

\* The inductive invariant is preserved by MemoryStart.
LEMMA MemoryStartStep ==
  ASSUME IInv, MemoryStart
  PROVE  IInv'
<1>0. CoreTypes /\ JobInv /\ FixtureInv /\ OutInv
  BY DEF IInv
<1>1. PICK n \in Updates, by \in InMemory :
        /\ Idle /\ runs < MaxRuns
        /\ runs' = runs + 1
        /\ job' = [NoJob EXCEPT !.by = by, !.run = runs', !.size = n]
        /\ UNCHANGED <<fixture, out, mark, signed, reused, prepared, made>>
  BY DEF MemoryStart, dirs, history
<1>2. Idle /\ runs < MaxRuns /\ runs' = runs + 1
      /\ UNCHANGED <<fixture, out, mark, signed, reused, prepared, made>>
  BY <1>1
<1>3. /\ runs \in Nat /\ runs' \in Nat /\ runs' \in Run /\ runs' \in 0 .. MaxRuns /\ runs <= runs'
      /\ prepared.run < runs' /\ made.run < runs' /\ runs' > runs
      /\ prepared.run <= runs' /\ made.run <= runs'
  <2>1. runs \in Nat /\ prepared.run \in Nat /\ made.run \in Nat /\ MaxRuns \in Nat
    BY <1>0, JobTypes, Params
  <2>2. prepared.run <= runs /\ made.run <= runs
    BY <1>0 DEF JobInv
  <2>3. runs < MaxRuns /\ runs' = runs + 1
    BY <1>2
  <2> QED BY <2>1, <2>2, <2>3 DEF Run
<1>4. /\ job'.by = by /\ job'.run = runs' /\ job'.size = n /\ job'.step = 0 /\ job' \in Job
  <2>1. by \in Program /\ runs' \in Run \cup {0} /\ n \in Updates
    BY <1>3 DEF Program, InMemory
  <2>2. job' = [NoJob EXCEPT !.by = by, !.run = runs', !.size = n]
    BY <1>1
  <2> QED BY <2>1, <2>2, StartFields
<1>5. JobInv'
  <2>1. n \in Nat /\ 0 <= n + 3
    BY Params
  <2> QED BY <1>2, <1>3, <1>4, <2>1 DEF JobInv, Idle, Signing, InMemory, Making
<1>6. OutInv' /\ ProgressInv' /\ FixtureInv'
  BY <1>0, <1>2, <1>4, OutFrame, FixtureFrame DEF ProgressInv, Making, InMemory
<1>7. /\ SignedInv' /\ NoSlotTwice'
      /\ (\A s \in signed : s.key \in Key /\ s.slot \in Genesis .. Genesis + KeySlots)'
      /\ (reused \in BOOLEAN)'
  BY <1>2, <1>3, <1>4, SignedFrame
<1>8. CoreTypes'
  BY <1>0, <1>2, <1>3, <1>4, <1>6, <1>7 DEF CoreTypes
<1> QED BY <1>5, <1>6, <1>7, <1>8 DEF IInv

\* A program that works in memory goes on: what a step of it must show.
LEMMA MemoryGoesOn ==
  ASSUME IInv, job.by \in InMemory, job.by = "demo" => job.step < job.size + 3,
         UNCHANGED <<fixture, out, mark, runs, prepared, made>>,
         job'.by = job.by, job'.run = job.run, job'.size = job.size, job'.step = job.step + 1,
         job' \in Job, SignedInv', NoSlotTwice', (reused \in BOOLEAN)',
         (\A s \in signed : s.key \in Key /\ s.slot \in Genesis .. Genesis + KeySlots)'
  PROVE  IInv'
<1>0. CoreTypes /\ JobInv /\ FixtureInv /\ OutInv
  BY DEF IInv
<1>1. job.step \in Nat /\ job.size \in Nat
  BY <1>0, JobTypes
<1>2. JobInv'
  BY <1>0, <1>1 DEF JobInv, Idle, Signing, InMemory, Making
<1>3. OutInv' /\ ProgressInv' /\ FixtureInv'
  BY <1>0, OutFrame, FixtureFrame DEF ProgressInv, Making, InMemory
<1>4. CoreTypes'
  BY <1>0, <1>3 DEF CoreTypes
<1> QED BY <1>2, <1>3, <1>4 DEF IInv

\* The inductive invariant is preserved by DemoUpdate.
LEMMA DemoUpdateStep ==
  ASSUME IInv, DemoUpdate
  PROVE  IInv'
<1>0. CoreTypes /\ JobInv
  BY DEF IInv
<1>1. /\ job.by = "demo" /\ job.step < job.size
      /\ Sign(UpdateSignatures(NextList, job.step))
      /\ UNCHANGED <<fixture, out, mark, runs, prepared, made>>
  BY DEF DemoUpdate, dirs, history
<1>2. job' = [job EXCEPT !.step = @ + 1, !.list = NextList]
  BY DEF DemoUpdate
<1>3. job.step \in Nat /\ job.size \in Nat /\ job.run \in Run
  BY <1>0, <1>1, JobTypes DEF JobInv, Idle
<1>4. /\ job'.by = job.by /\ job'.run = job.run /\ job'.size = job.size /\ job'.step = job.step + 1
      /\ job' \in Job
  BY <1>0, <1>2, <1>3, NextListType, UpdateFields
<1>5. /\ SignedInv' /\ NoSlotTwice'
      /\ (\A s \in signed : s.key \in Key /\ s.slot \in Genesis .. Genesis + KeySlots)'
      /\ (reused \in BOOLEAN)'
  BY <1>1, <1>4, SignsUpdate
<1> QED BY <1>1, <1>3, <1>4, <1>5, MemoryGoesOn DEF InMemory

\* The inductive invariant is preserved by DemoControl.
LEMMA DemoControlStep ==
  ASSUME IInv, DemoControl
  PROVE  IInv'
<1>0. CoreTypes /\ JobInv
  BY DEF IInv
<1> DEFINE c == DemoControls[job.step - job.size + 1]
           new == OwnSignatures(c)
<1>1. /\ job.by = "demo" /\ job.step - job.size + 1 \in 1 .. 3
      /\ Sign(new) /\ Steps
      /\ UNCHANGED <<fixture, out, mark, runs, prepared, made>>
  BY DEF DemoControl, DemoControls, dirs, history
<1>2. /\ job.step \in Nat /\ job.size \in Nat /\ job.run \in Run /\ job.size \in Updates
      /\ job.run = runs /\ runs \in Nat
  BY <1>0, <1>1, JobTypes DEF JobInv, Idle, Signing
<1>3. /\ c \in {"tampered", "outsider", "version"} /\ c \in Control
      /\ c = "tampered" <=> job.step = job.size
      /\ c = "outsider" <=> job.step = job.size + 1
      /\ c = "version" <=> job.step = job.size + 2
  BY <1>1, <1>2 DEF DemoControls, Control
<1>4. \A s \in new :
        /\ s.key \in Key /\ s.key.run = job.run /\ s.slot \in Genesis .. Genesis + KeySlots
        /\ s.key.outsider <=> c = "outsider"
        /\ c # "outsider" => s.slot = Genesis + (IF c = "slot" THEN job.size + 1
                                                 ELSE IF c = "version" THEN KeySlots ELSE job.size)
  BY <1>2, <1>3, OwnSignaturesOf
<1> HIDE DEF c, new
<1>5. /\ job'.by = job.by /\ job'.run = job.run /\ job'.size = job.size /\ job'.step = job.step + 1
      /\ job' \in Job
  BY <1>0, <1>1, StepFields
<1>6. job.size + 1 < KeySlots /\ KeySlots \in Nat /\ Genesis \in Nat
  BY <1>2, Params
<1>7. /\ Frontier(job) = (IF job.step = job.size THEN job.size ELSE KeySlots)
      /\ Frontier(job') = (IF job.step <= job.size + 1 THEN KeySlots ELSE KeySlots + 1)
      /\ OutsidersPending(job) <=> job.step <= job.size + 1
      /\ OutsidersPending(job') <=> job.step <= job.size
  BY <1>1, <1>2, <1>5 DEF Frontier, OutsidersPending
<1>8. \A s \in new : /\ ~s.key.outsider => s.slot >= Genesis + Frontier(job) /\ s.slot < Genesis + Frontier(job')
                     /\ s.key.outsider => OutsidersPending(job) /\ ~OutsidersPending(job')
  <2> SUFFICES ASSUME NEW s \in new
               PROVE  /\ ~s.key.outsider => s.slot >= Genesis + Frontier(job) /\ s.slot < Genesis + Frontier(job')
                      /\ s.key.outsider => OutsidersPending(job) /\ ~OutsidersPending(job')
    OBVIOUS
  <2> QED BY <1>2, <1>3, <1>4, <1>6, <1>7
<1>9. /\ Frontier(job) \in Nat /\ Frontier(job') \in Nat /\ Frontier(job) <= Frontier(job')
      /\ OutsidersPending(job') => OutsidersPending(job)
  BY <1>1, <1>2, <1>6, <1>7
<1>10. /\ SignedInv' /\ NoSlotTwice'
       /\ (\A s \in signed : s.key \in Key /\ s.slot \in Genesis .. Genesis + KeySlots)'
       /\ (reused \in BOOLEAN)'
  BY <1>1, <1>2, <1>4, <1>5, <1>8, <1>9, SignsAhead DEF Bare
<1>11. job.by \in InMemory /\ job.step < job.size + 3
  BY <1>1, <1>2 DEF InMemory
<1> QED BY <1>1, <1>5, <1>10, <1>11, MemoryGoesOn

\* raw_agg asks its counters before every signature.
LEMMA CountersAsked ==
  ASSUME IInv, job.by = "raw", job'.by = "raw", runs' = runs, NEW new, SignAt(new),
         \A s \in new : s.key \in Key /\ s.key.run = job.run /\ s.slot \in Genesis .. Genesis + KeySlots
  PROVE  /\ SignedInv' /\ NoSlotTwice'
         /\ (\A s \in signed : s.key \in Key /\ s.slot \in Genesis .. Genesis + KeySlots)'
         /\ (reused \in BOOLEAN)'
<1>1. /\ \A s \in signed : s.key \in Key /\ s.slot \in Genesis .. Genesis + KeySlots
      /\ reused \in BOOLEAN /\ runs \in Nat /\ SignedInv /\ NoSlotTwice
      /\ job.run = runs
  BY JobTypes DEF IInv, CoreTypes, JobInv, Signing
<1>2. signed' = signed \cup new
  BY DEF SignAt, Sign
<1>3. \A s \in new, q \in signed : s.key = q.key => s.slot # q.slot
  <2> SUFFICES ASSUME NEW s \in new, NEW q \in signed, s.key = q.key PROVE s.slot # q.slot
    OBVIOUS
  <2>1. q.slot < s.slot
    BY DEF SignAt
  <2>2. q.slot \in Int /\ s.slot \in Int
    BY <1>1, Params
  <2> QED BY <2>1, <2>2
<1>4. NoSlotTwice' /\ (reused \in BOOLEAN)'
  BY <1>1, <1>3 DEF NoSlotTwice, SignAt, Sign
<1>5. SignedInv'
  BY <1>1, <1>2 DEF SignedInv, Bare
<1> QED BY <1>1, <1>2, <1>4, <1>5

\* The inductive invariant is preserved by RawUpdate.
LEMMA RawUpdateStep ==
  ASSUME IInv, RawUpdate
  PROVE  IInv'
<1>0. CoreTypes /\ JobInv
  BY DEF IInv
<1> DEFINE new == UpdateSignatures(NextList, job.step)
<1>1. /\ job.by = "raw" /\ job.step < job.size /\ SignAt(new)
      /\ UNCHANGED <<fixture, out, mark, runs, prepared, made>>
  BY DEF RawUpdate, dirs, history
<1>2. job' = [job EXCEPT !.step = @ + 1, !.list = NextList]
  BY DEF RawUpdate
<1>3. job.step \in Nat /\ job.size \in Nat /\ job.run \in Run /\ job.size \in Updates
  BY <1>0, <1>1, JobTypes DEF JobInv, Idle
<1>4. /\ job'.by = job.by /\ job'.run = job.run /\ job'.size = job.size /\ job'.step = job.step + 1
      /\ job' \in Job
  BY <1>0, <1>2, <1>3, NextListType, UpdateFields
<1>5. job.step <= KeySlots
  BY <1>1, <1>3, Params
<1>6. \A s \in new : s.key \in Key /\ s.key.run = job.run /\ s.slot \in Genesis .. Genesis + KeySlots
  BY <1>3, <1>5, UpdateSignaturesOf
<1> HIDE DEF new
<1>7. /\ SignedInv' /\ NoSlotTwice'
      /\ (\A s \in signed : s.key \in Key /\ s.slot \in Genesis .. Genesis + KeySlots)'
      /\ (reused \in BOOLEAN)'
  BY <1>1, <1>4, <1>6, CountersAsked
<1> QED BY <1>1, <1>4, <1>7, MemoryGoesOn DEF InMemory

\* The inductive invariant is preserved by RawControlSigned.
LEMMA RawControlSignedStep ==
  ASSUME IInv, RawControlSigned
  PROVE  IInv'
<1>0. CoreTypes /\ JobInv
  BY DEF IInv
<1> DEFINE c == RawSigners[job.step - job.size + 1]
           new == RawSignatures(c)
<1>1. /\ job.by = "raw" /\ job.step - job.size + 1 \in 1 .. 3 /\ SignAt(new) /\ Steps
      /\ UNCHANGED <<fixture, out, mark, runs, prepared, made>>
  BY DEF RawControlSigned, RawSigners, dirs, history
<1>2. job.step \in Nat /\ job.size \in Nat /\ job.run \in Run /\ job.size \in Updates
  BY <1>0, <1>1, JobTypes DEF JobInv, Idle
<1>3. c \in {"honest", "outsider", "slot"}
  BY <1>1 DEF RawSigners
<1>4. \A s \in new : s.key \in Key /\ s.key.run = job.run /\ s.slot \in Genesis .. Genesis + KeySlots
  <2>1. CASE c = "outsider"
    <3> DEFINE m == Message(Anchor(job.run), job.list, job.size)
               I == {0}
               o == TRUE
    <3>1. /\ new = Signatures(Keys(job.run, o, I), m, V!SlotFor(Anchor(job.run), job.size))
          /\ I \in SUBSET Member /\ o \in BOOLEAN
      BY <2>1, Quorums DEF RawSignatures
    <3>2. job.run \in Run /\ job.size \in Nat /\ job.size <= KeySlots
      BY <1>2, Params
    <3> HIDE DEF m, I, o, new, c
    <3> QED BY <3>1, <3>2, SignaturesOf
  <2>2. CASE c # "outsider"
    <3>1. new = Signs(Anchor(job.run), job.run, job.list, job.size, c) /\ c \in {"honest", "slot", "version"}
      BY <1>3, <2>2 DEF RawSignatures
    <3> HIDE DEF c, new
    <3> QED BY <1>2, <3>1, SignsOf
  <2> QED BY <2>1, <2>2
<1> HIDE DEF c, new
<1>5. /\ job'.by = job.by /\ job'.run = job.run /\ job'.size = job.size /\ job'.step = job.step + 1
      /\ job' \in Job
  BY <1>0, <1>1, StepFields
<1>6. /\ SignedInv' /\ NoSlotTwice'
      /\ (\A s \in signed : s.key \in Key /\ s.slot \in Genesis .. Genesis + KeySlots)'
      /\ (reused \in BOOLEAN)'
  BY <1>1, <1>4, <1>5, CountersAsked
<1> QED BY <1>1, <1>5, <1>6, MemoryGoesOn DEF InMemory

-----------------------------------------------------------------------------
(* verifier, and a program that dies                                       *)

\* While no program runs, only the mark changes: what a step of the verifier must show.
LEMMA MarkChanges ==
  ASSUME IInv, Idle, UNCHANGED <<fixture, out, job, signed, reused, runs, prepared, made>>,
         mark' \subseteq Mark, \A m, q \in mark' : m.inside = q.inside => m = q
  PROVE  IInv'
<1>0. CoreTypes /\ JobInv /\ FixtureInv /\ OutInv /\ job.by = "none"
  BY DEF IInv, Idle
<1>1. JobInv' /\ ProgressInv'
  BY <1>0 DEF JobInv, ProgressInv, HasUpdates, Idle, Making, Signing, InMemory
<1>2. OutInv' /\ FixtureInv'
  BY <1>0, OutFrame, FixtureFrame
<1>3. SignedInv' /\ NoSlotTwice'
  BY DEF IInv, SignedInv, NoSlotTwice
<1>4. CoreTypes'
  BY <1>0 DEF CoreTypes
<1> QED BY <1>1, <1>2, <1>3, <1>4 DEF IInv

\* A new mark holds no version; an older one goes up to that of a record in the
\* directory.
LEMMA MarkTypes ==
  ASSUME IInv, AnchorFile \in DOMAIN out
  PROVE  /\ \A inside \in BOOLEAN : [anchor |-> out[AnchorFile], version |-> -1, inside |-> inside] \in Mark
         /\ \A m \in mark : MarkAfterReplay(out, m) \in Mark /\ MarkAfterReplay(out, m).inside = m.inside
<1>0. CoreTypes /\ OutInv
  BY DEF IInv
<1>1. out[AnchorFile] = Anchor(made.run) /\ made.run \in Run /\ made.size \in Updates
  BY <1>0 DEF OutInv
<1>2. \A inside \in BOOLEAN : [anchor |-> out[AnchorFile], version |-> -1, inside |-> inside] \in Mark
  BY <1>1 DEF Mark
<1>3. ASSUME NEW m \in mark PROVE MarkAfter(out, m) \in Mark /\ MarkAfter(out, m).inside = m.inside
  <2>1. m \in Mark
    BY <1>0 DEF CoreTypes
  <2>2. CASE MarkAfter(out, m) = m
    BY <2>1, <2>2
  <2>3. CASE MarkAfter(out, m) # m
    <3>1. /\ CanonicalFile \in DOMAIN out
          /\ MarkAfter(out, m) = [m EXCEPT !.version = out[CanonicalFile].version]
      BY <2>3 DEF MarkAfter
    <3>2. out[CanonicalFile].version \in Version
      BY <1>0, <3>1 DEF OutInv
    <3> QED BY <2>1, <3>1, <3>2 DEF Mark
  <2> QED BY <2>2, <2>3
<1>4. ASSUME NEW m \in mark PROVE MarkAfterReplay(out, m) \in Mark /\ MarkAfterReplay(out, m).inside = m.inside
  <2> DEFINE after == MarkAfter(out, m)
             newer == {v \in Replayed(out, m) : out[UpdateFile(v)].version > after.version}
             first == CHOOSE v \in newer : TRUE
  <2>1. after \in Mark /\ after.inside = m.inside
    BY <1>3
  <2>2. CASE MarkAfterReplay(out, m) = after
    BY <2>1, <2>2
  <2>3. CASE MarkAfterReplay(out, m) # after
    <3>1. newer # {} /\ MarkAfterReplay(out, m) = [after EXCEPT !.version = out[UpdateFile(first)].version]
      BY <2>3, Zenon DEF MarkAfterReplay
    <3>2. first \in newer
      <4> HIDE DEF newer
      <4> QED BY <3>1
    <3>3. first \in Version /\ UpdateFile(first) \in DOMAIN out
      <4> HIDE DEF first
      <4> QED BY <3>2 DEF Replayed
    <3>4. out[UpdateFile(first)].version \in Version
      <4> HIDE DEF first
      <4> QED BY <1>0, <3>3 DEF OutInv
    <3> HIDE DEF first, newer, after
    <3> QED BY <2>1, <3>1, <3>4 DEF Mark
  <2> QED BY <2>2, <2>3
<1> QED BY <1>2, <1>4

\* The inductive invariant is preserved by the verifier.
LEMMA VerifierStep ==
  ASSUME IInv, InitState \/ Verify \/ VerifyRefused \/ NewMarkPath
  PROVE  IInv'
<1>0. mark \subseteq Mark /\ \A m, q \in mark : m.inside = q.inside => m = q
  BY DEF IInv, CoreTypes
<1>1. Idle /\ UNCHANGED <<fixture, out, job, signed, reused, runs, prepared, made>>
  BY DEF InitState, Verify, VerifyRefused, NewMarkPath, dirs, history
<1>2. mark' \subseteq Mark /\ \A m, q \in mark' : m.inside = q.inside => m = q
  <2>1. CASE InitState
    <3>1. PICK inside \in BOOLEAN :
            /\ AnchorFile \in DOMAIN out
            /\ \A m \in mark : m.inside # inside
            /\ mark' = mark \cup {[anchor |-> out[AnchorFile], version |-> -1, inside |-> inside]}
      BY <2>1 DEF InitState
    <3> DEFINE new == [anchor |-> out[AnchorFile], version |-> -1, inside |-> inside]
    <3>2. new \in Mark /\ new.inside = inside /\ mark' = mark \cup {new}
      BY <3>1, MarkTypes
    <3> HIDE DEF new
    <3> QED BY <1>0, <3>1, <3>2
  <2>2. CASE Verify
    <3>1. PICK m \in mark : AnchorFile \in DOMAIN out /\ mark' = (mark \ {m}) \cup {MarkAfterReplay(out, m)}
      BY <2>2 DEF Verify
    <3>2. MarkAfterReplay(out, m) \in Mark /\ MarkAfterReplay(out, m).inside = m.inside
      BY <3>1, MarkTypes
    <3> QED BY <1>0, <3>1, <3>2
  <2>3. CASE NewMarkPath \/ VerifyRefused
    BY <1>0, <2>3 DEF NewMarkPath, VerifyRefused
  <2> QED BY <2>1, <2>2, <2>3
<1> QED BY <1>1, <1>2, MarkChanges

\* The inductive invariant is preserved when a program dies anywhere.
LEMMA KillStep ==
  ASSUME IInv, Kill
  PROVE  IInv'
<1>0. CoreTypes /\ JobInv /\ FixtureInv /\ OutInv
  BY DEF IInv
<1>1. /\ job' = NoJob /\ signed' \subseteq signed
      /\ UNCHANGED <<fixture, out, mark, reused, runs, prepared, made>>
  BY DEF Kill, Ends, SignedOnFile, dirs, history
<1>2. runs \in Nat /\ runs <= runs
  BY <1>0, JobTypes
<1>3. JobInv' /\ ProgressInv' /\ job' \in Job
  BY <1>0, <1>1, <1>2, JobEnds DEF JobInv
<1>4. OutInv' /\ FixtureInv'
  BY <1>0, <1>1, NoJobFields, OutFrame, FixtureFrame
<1>5. /\ SignedInv' /\ NoSlotTwice'
      /\ (\A s \in signed : s.key \in Key /\ s.slot \in Genesis .. Genesis + KeySlots)'
      /\ (reused \in BOOLEAN)'
  BY <1>1, <1>2, NoJobFields, SignedFrame DEF Bare
<1>6. CoreTypes'
  BY <1>0, <1>1, <1>3, <1>4, <1>5 DEF CoreTypes
<1> QED BY <1>3, <1>4, <1>5, <1>6 DEF IInv

\* The inductive invariant is preserved when a program dies inside a write.
LEMMA TornWriteStep ==
  ASSUME IInv, TornWrite
  PROVE  IInv'
<1>0. CoreTypes /\ JobInv /\ FixtureInv /\ OutInv
  BY DEF IInv
<1>1. /\ job' = NoJob
      /\ UNCHANGED <<fixture, out, mark, signed, reused, runs, prepared, made>>
  BY DEF TornWrite, Ends, history
<1>2. runs \in Nat /\ runs <= runs
  BY <1>0, JobTypes
<1>3. JobInv' /\ ProgressInv' /\ job' \in Job
  BY <1>0, <1>1, <1>2, JobEnds DEF JobInv
<1>4. OutInv' /\ FixtureInv'
  BY <1>0, <1>1, NoJobFields, OutFrame, FixtureFrame
<1>5. /\ SignedInv' /\ NoSlotTwice'
      /\ (\A s \in signed : s.key \in Key /\ s.slot \in Genesis .. Genesis + KeySlots)'
      /\ (reused \in BOOLEAN)'
  BY <1>1, <1>2, NoJobFields, SignedFrame DEF Bare
<1>6. CoreTypes'
  BY <1>0, <1>1, <1>3, <1>4, <1>5 DEF CoreTypes
<1> QED BY <1>3, <1>4, <1>5, <1>6 DEF IInv

\* A program that is killed before it has written a whole file leaves less.
LEMMA KilledEarly ==
  ASSUME IInv, Idle, runs < MaxRuns, runs' = runs + 1, UNCHANGED <<mark, job, signed, reused>>,
         FixtureInv', OutInv', prepared' \in Made, made' \in Made,
         prepared'.run <= runs, made'.run <= runs
  PROVE  IInv'
<1>0. CoreTypes /\ JobInv /\ job = NoJob
  BY DEF IInv, JobInv
<1>1. runs \in Nat /\ runs' \in Nat /\ runs <= runs' /\ runs' \in 0 .. MaxRuns
  BY <1>0, JobTypes, Params
<1>2. prepared'.run <= runs' /\ made'.run <= runs'
  <2>1. prepared'.run \in Run \cup {0} /\ made'.run \in Run \cup {0}
    BY DEF Made
  <2>2. Run \cup {0} \subseteq Nat
    BY Params
  <2>3. prepared'.run \in Nat /\ made'.run \in Nat
    BY <2>1, <2>2
  <2> QED BY <1>1, <2>3
<1>3. job' = NoJob
  BY <1>0
<1>4. JobInv' /\ ProgressInv' /\ job' \in Job
  BY <1>0, <1>1, <1>2, <1>3, JobEnds
<1>5. /\ SignedInv' /\ NoSlotTwice'
      /\ (\A s \in signed : s.key \in Key /\ s.slot \in Genesis .. Genesis + KeySlots)'
      /\ (reused \in BOOLEAN)'
  BY <1>1, <1>3, NoJobFields, SignedFrame DEF Bare
<1>6. CoreTypes'
  BY <1>0, <1>1, <1>4, <1>5 DEF CoreTypes, FixtureInv, OutInv
<1> QED BY <1>4, <1>5, <1>6 DEF IInv

\* The inductive invariant is preserved when a program dies inside the write of its
\* anchor.
LEMMA TornAnchorStep ==
  ASSUME IInv, TornFixtureAnchor \/ TornOutAnchor
  PROVE  IInv'
<1>0. CoreTypes /\ JobInv /\ FixtureInv /\ OutInv /\ runs \in Nat
  BY JobTypes DEF IInv
<1>1. Nothing \in Made /\ Nothing.run = 0
  BY DEF Nothing, Made, Program
<1>2. /\ prepared \in Made /\ made \in Made /\ prepared.run <= runs /\ made.run <= runs /\ 0 <= runs
  BY <1>0 DEF CoreTypes, JobInv
<1>3. /\ Idle /\ runs < MaxRuns /\ runs' = runs + 1 /\ UNCHANGED <<mark, job, signed, reused>>
  BY DEF TornFixtureAnchor, TornOutAnchor
<1>4. CASE TornFixtureAnchor
  <2>1. DOMAIN fixture' = {} /\ prepared' = Nothing /\ out' = out /\ made' = made
    BY <1>4 DEF TornFixtureAnchor, Clear, Empty
  <2>2. FixtureInv'
    BY <1>3, <2>1 DEF FixtureInv, Idle
  <2>3. OutInv'
    BY <1>0, <2>1, OutFrame
  <2> QED BY <1>1, <1>2, <1>3, <2>1, <2>2, <2>3, KilledEarly
<1>5. CASE TornOutAnchor
  <2>1. DOMAIN out' = {} /\ made' = Nothing /\ fixture' = fixture /\ prepared' = prepared
    BY <1>5 DEF TornOutAnchor, Clear, Empty
  <2>2. OutInv'
    BY <2>1 DEF OutInv
  <2>3. FixtureInv'
    BY <1>0, <1>3, <2>1, FixtureFrame
  <2> QED BY <1>1, <1>2, <1>3, <2>1, <2>2, <2>3, KilledEarly
<1> QED BY <1>4, <1>5

\* The inductive invariant is preserved when a program dies while it removes files.
LEMMA PartlyClearedStep ==
  ASSUME IInv, PartlyClearedFixture \/ PartlyClearedOut
  PROVE  IInv'
<1>0. CoreTypes /\ JobInv /\ FixtureInv /\ OutInv
  BY DEF IInv
<1>1. /\ prepared \in Made /\ made \in Made /\ prepared.run <= runs /\ made.run <= runs
  BY <1>0 DEF CoreTypes, JobInv
<1>2. /\ Idle /\ runs < MaxRuns /\ runs' = runs + 1 /\ UNCHANGED <<mark, job, signed, reused, prepared, made>>
  BY DEF PartlyClearedFixture, PartlyClearedOut
<1>3. CASE PartlyClearedFixture
  <2>1. PICK names : fixture' = Kept(fixture, names)
    BY <1>3 DEF PartlyClearedFixture
  <2>2. /\ DOMAIN fixture' \subseteq DOMAIN fixture
        /\ \A f \in DOMAIN fixture' : fixture'[f] = fixture[f]
    BY <2>1 DEF Kept
  <2>3. FixtureInv'
    BY <1>0, <1>2, <2>2 DEF FixtureInv, Idle
  <2>4. OutInv'
    BY <1>0, <1>2, <1>3, OutFrame DEF PartlyClearedFixture
  <2> QED BY <1>1, <1>2, <2>3, <2>4, KilledEarly
<1>4. CASE PartlyClearedOut
  <2>1. PICK names : out' = Kept(out, names)
    BY <1>4 DEF PartlyClearedOut
  <2>2. /\ DOMAIN out' \subseteq DOMAIN out
        /\ \A f \in DOMAIN out' : out'[f] = out[f]
    BY <2>1 DEF Kept
  <2>3. OutInv'
    BY <1>0, <1>2, <2>2 DEF OutInv
  <2>4. FixtureInv'
    BY <1>0, <1>2, <1>4, FixtureFrame DEF PartlyClearedOut
  <2> QED BY <1>1, <1>2, <2>3, <2>4, KilledEarly
<1> QED BY <1>3, <1>4

-----------------------------------------------------------------------------
(* The theorems                                                            *)

\* The invariant holds before the first program is started.
LEMMA InitInv == Init => IInv
<1> SUFFICES ASSUME Init PROVE IInv
  OBVIOUS
<1>1. /\ DOMAIN fixture = {} /\ DOMAIN out = {} /\ mark = {} /\ job = NoJob
      /\ signed = {} /\ reused = FALSE /\ runs = 0 /\ prepared = Nothing /\ made = Nothing
  BY DEF Init, Empty
<1>2. /\ Nothing \in Made /\ Nothing.run = 0
  BY DEF Nothing, Made, Program
<1>4. CoreTypes
  <2>1. runs \in 0 .. MaxRuns
    BY <1>1, Params
  <2>2. job \in Job /\ prepared \in Made /\ made \in Made
    BY <1>1, <1>2, NoJobFields
  <2> QED BY <1>1, <2>1, <2>2 DEF CoreTypes
<1>5. JobInv
  BY <1>1, <1>2, NoJobFields DEF JobInv, Idle, Signing, InMemory, Making
<1>6. SignedInv /\ NoSlotTwice
  BY <1>1 DEF SignedInv, NoSlotTwice
<1>7. FixtureInv /\ OutInv /\ ProgressInv
  BY <1>1, NoJobFields DEF FixtureInv, OutInv, ProgressInv, Making
<1> QED BY <1>4, <1>5, <1>6, <1>7 DEF IInv

\* Every step preserves the invariant.
LEMMA StepInv == IInv /\ [Next]_vars => IInv'
<1> SUFFICES ASSUME IInv, [Next]_vars PROVE IInv'
  OBVIOUS
<1>1. CASE UNCHANGED vars
  BY <1>1 DEF vars, dirs, history, IInv, CoreTypes, JobInv, SignedInv, NoSlotTwice, FixtureInv, OutInv,
     ProgressInv, Idle, HasUpdates
<1>2. CASE Next
  BY <1>2, FixtureStartStep, FixtureUpdateStep, FixtureControlStep, FixtureOutsiderAnchorStep,
     FixtureOutsiderStep, ProverStartStep, ProveUpdateStep, WriteCanonicalStep, ProveControlStep,
     SelfStartStep, SelfUpdateStep, SelfControlStep, MemoryStartStep, DemoUpdateStep,
     DemoControlStep, RawUpdateStep, RawControlSignedStep, VerifierStep, KillStep,
     TornWriteStep, TornAnchorStep, PartlyClearedStep DEF Next
<1> QED BY <1>1, <1>2

\* So the invariant holds throughout.
LEMMA Inductive == Spec => []IInv
BY InitInv, StepInv, PTL DEF Spec

\* No key of committee_fixture, prover, the demo or raw_agg signs twice at one slot,
\* although the first three keep no counter: for every N_UPDATES and KEY_SLOTS with
\* N_UPDATES + 1 < KEY_SLOTS, the updates, the late and the relabelled control keep to
\* slots of their own.
THEOREM BareKeysSignOnce == Spec => []NoSlotTwice
<1>1. IInv => NoSlotTwice
  BY DEF IInv
<1> QED BY <1>1, Inductive, PTL

-----------------------------------------------------------------------------
(* Controls.  Every one is made of a row of T signatures of one message at *)
(* one slot, the i-th by a key with the index i.                           *)

Row(K, m, slot) == {[key |-> K[i], message |-> m, slot |-> slot] : i \in FirstT}
Inputs(K, m, slot) ==
  [i \in 1 .. T |-> <<K[i - 1], [key |-> K[i - 1], message |-> m, slot |-> slot]>>]

\* Signatures of one message at one slot.
Group(keys, m, slot) == {[key |-> k, message |-> m, slot |-> slot] : k \in keys}

\* The first T members, the same with an outsider in the first place, and outsiders.
MemberKeys(run) == [i \in FirstT |-> [run |-> run, outsider |-> FALSE, index |-> i]]
MixedKeys(run) == [i \in FirstT |-> [run |-> run, outsider |-> (i = 0), index |-> i]]
OutsiderKeys(run) == [i \in FirstT |-> [run |-> run, outsider |-> TRUE, index |-> i]]

\* The checks that a record passes whatever signatures exist.
Shape(a, r) ==
  LET agg == r.proof
      group == CHOOSE g \in V!XmssSigners(agg) : TRUE
  IN (IF V!PubKeys(agg) \subseteq V!MembersOf(a) THEN {1} ELSE {})
     \cup (IF group.message = Message(a, r.list, r.version) THEN {2} ELSE {})
     \cup (IF group.slot = V!SlotFor(a, r.version) THEN {3} ELSE {})
     \cup (IF Cardinality(V!PubKeys(agg)) >= a.t THEN {4} ELSE {})

\* A control that its own check refuses and, if its signatures exist, no other.
WellMade(a, c, r) ==
  /\ Shape(a, r) = 1 .. 4 \ {OwnCheck[c]}
  /\ r.proof.body = (c # "proofbody")

\* The signatures of the fixture's outsider control.
MixedSignatures(run, list, n) ==
  LET a == Anchor(run) IN
  Signatures(Keys(run, TRUE, {0}), Message(a, list, n), V!SlotFor(a, n))
    \cup {s \in Signs(a, run, list, n, "honest") : s.key.index # 0}

\* What the fixture signs for a control.
FixtureSignatures(run, list, n, c) ==
  IF c = "outsider" THEN MixedSignatures(run, list, n) ELSE Signs(Anchor(run), run, list, n, c)

\* The version of the fixture's record for a control.
FixtureVersion(n, c) == IF c = "version" THEN n - 1 ELSE n

\* A control in the fixture directory, if it is there: what the run with the history p
\* has signed.
FixtureControlIn(dir, p, sigs, c) ==
  AttackFile(c) \in DOMAIN dir =>
    LET r == dir[AttackFile(c)]
        own == FixtureSignatures(p.run, r.list, p.size, c)
    IN r.list \in Seq(Entry) /\ r = Raw(r.list, FixtureVersion(p.size, c), own) /\ own \subseteq sigs

FixtureControlsInv ==
  /\ \A c \in RawControl : FixtureControlIn(fixture, prepared, signed, c)
  /\ OutsiderFile \in DOMAIN fixture => fixture[OutsiderFile] = OutsiderAnchor(prepared.run)

\* A control in the artifact directory, if it is there: well made, of signatures of the run.
OutControlIn(dir, run, sigs, c) ==
  AttackFile(c) \in DOMAIN dir =>
    /\ WellMade(Anchor(run), c, dir[AttackFile(c)])
    /\ \A s \in dir[AttackFile(c)].proof.claims : s \in sigs /\ s.key.run = run

OutControlsInv == \A c \in Control : OutControlIn(out, made.run, signed, c)

\* The signatures that a program uses for a second control were made for the first.
HonestInv ==
  \/ job.by = "fixture" /\ job.step > job.size
  \/ job.by = "self" /\ job.step > job.size + 1
  => Signs(Anchor(job.run), job.run, job.list, job.size, "honest") \subseteq signed

\* The demo's controls are made of signatures that exist.
DemoInv ==
  job.by = "demo" =>
    \A i \in DOMAIN DemoControls : i <= job.step - job.size => OwnSignatures(DemoControls[i]) \subseteq signed

ControlsInv == FixtureControlsInv /\ OutControlsInv /\ HonestInv /\ DemoInv

\* The place of an index among the first T.
LEMMA RankFirst ==
  /\ IsFiniteSet(FirstT) /\ Cardinality(FirstT) = T
  /\ \A b \in FirstT : V!Rank(FirstT, b) = b + 1
  /\ \A b \in FirstT : b \in Nat /\ b + 1 \in 1 .. T
  /\ \A i \in 1 .. T : i - 1 \in FirstT
<1>1. \A b \in FirstT : b \in Nat /\ b + 1 \in 1 .. T
  BY Params DEF FirstT
<1>2. \A i \in 1 .. T : i - 1 \in FirstT
  BY Params DEF FirstT
<1>3. ASSUME NEW b \in FirstT PROVE V!Rank(FirstT, b) = b + 1
  <2>1. {j \in FirstT : j <= b} = 0 .. b
    BY <1>1, Params DEF FirstT
  <2>2. Cardinality(0 .. b) = b + 1
    BY <1>1, FS_Interval
  <2>3. V!Rank(FirstT, b) = V!Cardinality({j \in FirstT : j <= b})
    BY DEF V!Rank
  <2> QED BY <2>1, <2>2, <2>3, SameCardinality
<1>4. IsFiniteSet(0 .. T - 1) /\ Cardinality(0 .. T - 1) = T
  BY Params, FS_Interval
<1> QED BY <1>1, <1>2, <1>3, <1>4 DEF FirstT

\* The raw record of a row holds its signatures in the order of the indices.
LEMMA RawOfRow ==
  ASSUME NEW K, \A i \in FirstT : K[i].index = i, NEW m, NEW slot, NEW list, NEW v, NEW r,
         r = Raw(list, v, Row(K, m, slot))
  PROVE  /\ r.list = list /\ r.version = v /\ r.bits = FirstT
         /\ r.sigs = [i \in 1 .. T |-> [key |-> K[i - 1], message |-> m, slot |-> slot]]
<1> DEFINE sig(i) == [key |-> K[i], message |-> m, slot |-> slot]
           pairs == {<<s.key.index, s>> : s \in Row(K, m, slot)}
           bits == {p[1] : p \in pairs}
           choice(i) == CHOOSE p \in pairs : V!Rank(bits, p[1]) = i
<1>1. pairs = {<<i, sig(i)>> : i \in FirstT}
  BY DEF Row
<1>2. bits = FirstT
  <2>1. \A p \in pairs : p[1] \in FirstT
    BY <1>1
  <2>2. ASSUME NEW i \in FirstT PROVE i \in bits
    <3>1. <<i, sig(i)>> \in pairs /\ <<i, sig(i)>>[1] = i
      BY <1>1
    <3> QED BY <3>1
  <2> QED BY <2>1, <2>2
<1>3. r = V!RawRecord(V!WotsXmss, list, v, Size, bits, [i \in 1 .. V!Cardinality(bits) |-> choice(i)[2]])
  BY Zenon DEF Raw, V!StatusListNew
<1>4. ASSUME NEW i \in 1 .. T PROVE choice(i)[2] = sig(i - 1)
  <2>1. i - 1 \in FirstT /\ V!Rank(FirstT, i - 1) = i
    BY RankFirst
  <2>2. <<i - 1, sig(i - 1)>> \in pairs
    BY <1>1, <2>1
  <2>3. ASSUME NEW p \in pairs, V!Rank(FirstT, p[1]) = i PROVE p = <<i - 1, sig(i - 1)>>
    <3>1. PICK b \in FirstT : p = <<b, sig(b)>>
      BY <1>1
    <3>2. b + 1 = i /\ b \in Nat
      BY <2>3, <3>1, RankFirst
    <3>3. b = i - 1
      BY <3>2
    <3> QED BY <3>1, <3>3
  <2>4. <<i - 1, sig(i - 1)>>[1] = i - 1
    OBVIOUS
  <2> HIDE DEF pairs, bits
  <2>5. \E p \in pairs : V!Rank(bits, p[1]) = i
    BY <1>2, <2>1, <2>2, <2>4
  <2>6. choice(i) \in pairs /\ V!Rank(bits, choice(i)[1]) = i
    BY <2>5
  <2> HIDE DEF choice
  <2>7. choice(i) = <<i - 1, sig(i - 1)>>
    BY <1>2, <2>3, <2>6
  <2> QED BY <2>7
<1> HIDE DEF pairs, bits, choice
<1>5. /\ r.list = list /\ r.version = v /\ r.bits = bits
      /\ r.sigs = [i \in 1 .. V!Cardinality(bits) |-> choice(i)[2]]
  BY <1>3 DEF V!RawRecord
<1>6. V!Cardinality(bits) = T
  BY <1>2, RankFirst, SameCardinality
<1>7. r.sigs = [i \in 1 .. T |-> sig(i - 1)]
  BY <1>4, <1>5, <1>6
<1> QED BY <1>2, <1>5, <1>7

\* Over an anchor that names the keys of a row, the aggregation inputs are the row.
LEMMA InputsOfRow ==
  ASSUME NEW K, NEW m, NEW slot, NEW a, NEW r, \A i \in 1 .. T : a.members[i] = K[i - 1],
         r.bits = FirstT, r.sigs = [i \in 1 .. T |-> [key |-> K[i - 1], message |-> m, slot |-> slot]]
  PROVE  AggregationInputs(a, r) = Inputs(K, m, slot)
<1>1. Len(r.sigs) = T
  BY Params
<1> DEFINE place(i) == CHOOSE b \in r.bits : V!Rank(r.bits, b) = i
<1>2. ASSUME NEW i \in 1 .. T PROVE place(i) + 1 = i
  <2>1. i - 1 \in FirstT /\ V!Rank(FirstT, i - 1) = i
    BY RankFirst
  <2>2. \A b \in FirstT : V!Rank(FirstT, b) = i => b = i - 1
    BY RankFirst
  <2>3. place(i) = i - 1
    BY <2>1, <2>2
  <2> HIDE DEF place
  <2> QED BY <2>3
<1>3. AggregationInputs(a, r) = [i \in 1 .. Len(r.sigs) |-> <<a.members[place(i) + 1], r.sigs[i]>>]
  BY Zenon DEF AggregationInputs
<1> HIDE DEF place
<1>4. ASSUME NEW i \in 1 .. T PROVE <<a.members[place(i) + 1], r.sigs[i]>> = Inputs(K, m, slot)[i]
  <2>1. a.members[place(i) + 1] = K[i - 1]
    BY <1>2
  <2> QED BY <2>1 DEF Inputs
<1>5. DOMAIN Inputs(K, m, slot) = 1 .. T /\ Inputs(K, m, slot) = [i \in 1 .. T |-> Inputs(K, m, slot)[i]]
  BY DEF Inputs
<1> QED BY <1>1, <1>3, <1>4, <1>5

\* Aggregating the first j signatures of a row proves exactly these.
LEMMA AggregateOfRow ==
  ASSUME NEW K, NEW m, NEW slot, NEW j \in 0 .. T
  PROVE  LET agg == Aggregate(SubSeq(Inputs(K, m, slot), 1, j), m, slot) IN
         /\ agg.claims = Group({K[i] : i \in 0 .. j - 1}, m, slot)
         /\ agg.body = TRUE
<1> DEFINE in == SubSeq(Inputs(K, m, slot), 1, j)
           keys == {in[i][1] : i \in DOMAIN in}
<1>1. DOMAIN in = 1 .. j /\ \A i \in 1 .. j : in[i] = <<K[i - 1], [key |-> K[i - 1], message |-> m, slot |-> slot]>>
  <2>1. in = [i \in 1 .. j |-> Inputs(K, m, slot)[i]]
    BY Params DEF SubSeq
  <2>2. \A i \in 1 .. j : i \in 1 .. T
    BY Params
  <2> QED BY <2>1, <2>2 DEF Inputs
<1> HIDE DEF in
<1>2. keys = {K[i] : i \in 0 .. j - 1}
  <2>1. \A i \in 1 .. j : i - 1 \in 0 .. j - 1
    BY Params
  <2>2. \A i \in 0 .. j - 1 : i + 1 \in 1 .. j /\ (i + 1) - 1 = i
    BY Params
  <2>3. \A k \in keys : k \in {K[i] : i \in 0 .. j - 1}
    BY <1>1, <2>1
  <2>4. ASSUME NEW i \in 0 .. j - 1 PROVE K[i] \in keys
    <3>1. i + 1 \in DOMAIN in /\ in[i + 1][1] = K[i]
      BY <1>1, <2>2
    <3> QED BY <3>1
  <2> QED BY <2>3, <2>4
<1>3. \A i \in DOMAIN in : V!XmssVerify(in[i][1], m, in[i][2], slot)
  BY <1>1 DEF V!XmssVerify
<1> DEFINE all == \A i \in DOMAIN in : V!XmssVerify(in[i][1], m, in[i][2], slot)
           made0 == V!MakeAggregate(keys, m, slot)
<1>4. Aggregate(in, m, slot) = [made0 EXCEPT !.body = all]
  BY Zenon DEF Aggregate
<1>5. all = TRUE
  BY <1>3
<1> HIDE DEF keys, all
<1>6. made0 = [claims |-> Group(keys, m, slot),
               sphincs |-> FALSE, canonical |-> TRUE, body |-> TRUE]
  BY DEF V!MakeAggregate, V!Aggregate, Group
<1> HIDE DEF made0
<1>7. /\ Aggregate(in, m, slot).claims = Group(keys, m, slot)
      /\ Aggregate(in, m, slot).body = TRUE
  BY <1>4, <1>5, <1>6
<1> QED BY <1>2, <1>7 DEF in

\* As many keys as places.
LEMMA KeyCount ==
  ASSUME NEW K, \A i \in FirstT : K[i].index = i, NEW j \in 0 .. T
  PROVE  /\ Cardinality({K[i] : i \in 0 .. j - 1}) = j
         /\ \A i \in 0 .. j - 1 : i \in FirstT
<1> DEFINE D == 0 .. j - 1
           KS == {K[i] : i \in D}
           f == [i \in D |-> K[i]]
<1>1. \A i \in D : i \in FirstT
  BY Params DEF FirstT
<1>2. IsFiniteSet(D) /\ Cardinality(D) = j
  <2>1. 0 \in Int /\ j - 1 \in Int /\ (IF 0 > j - 1 THEN 0 ELSE j - 1 - 0 + 1) = j
    BY Params
  <2> QED BY <2>1, FS_Interval
<1>3. f \in Bijection(D, KS)
  <2>1. f \in [D -> KS]
    OBVIOUS
  <2>2. \A x, y \in D : f[x] = f[y] => x = y
    <3> SUFFICES ASSUME NEW x \in D, NEW y \in D, f[x] = f[y] PROVE x = y
      OBVIOUS
    <3>1. x \in FirstT /\ y \in FirstT /\ K[x] = K[y]
      BY <1>1
    <3>2. K[x].index = x /\ K[y].index = y
      BY <3>1
    <3> QED BY <3>1, <3>2
  <2>3. \A k \in KS : \E x \in D : f[x] = k
    OBVIOUS
  <2> QED BY <2>1, <2>2, <2>3 DEF Bijection, Injection, Surjection, IsInjective
<1>4. ExistsBijection(D, KS)
  BY <1>3 DEF ExistsBijection
<1>5. Cardinality(KS) = Cardinality(D)
  BY <1>2, <1>4, FS_Bijection
<1> QED BY <1>1, <1>2, <1>5

\* The members of a run's committee.
LEMMA CommitteeMembers ==
  ASSUME NEW run
  PROVE  V!MembersOf(Anchor(run)) = {[run |-> run, outsider |-> FALSE, index |-> i] : i \in Member}
<1> DEFINE key(i) == [run |-> run, outsider |-> FALSE, index |-> i]
<1>1. Anchor(run).members = [i \in 1 .. Size |-> key(i - 1)]
  BY DEF Anchor
<1>2. Len(Anchor(run).members) = Size /\ \A i \in 1 .. Size : Anchor(run).members[i] = key(i - 1)
  BY <1>1, Params
<1>3. V!MembersOf(Anchor(run)) = {Anchor(run).members[i] : i \in 1 .. Size}
  BY <1>2 DEF V!MembersOf, V!N
<1>4. \A i \in 1 .. Size : i - 1 \in Member
  BY Params DEF Member
<1>5. \A i \in Member : i + 1 \in 1 .. Size /\ (i + 1) - 1 = i
  BY Params DEF Member
<1>6. ASSUME NEW i \in Member PROVE key(i) \in {Anchor(run).members[x] : x \in 1 .. Size}
  <2>1. Anchor(run).members[i + 1] = key(i)
    BY <1>2, <1>5
  <2> QED BY <1>5, <2>1
<1>7. ASSUME NEW i \in 1 .. Size PROVE Anchor(run).members[i] \in {key(x) : x \in Member}
  BY <1>2, <1>4
<1> QED BY <1>3, <1>6, <1>7

\* The checks that an aggregate of one message at one slot passes.
ShapeIs(a, r, KS, m, slot) ==
  \A x : x \in Shape(a, r) <=> \/ x = 1 /\ KS \subseteq V!MembersOf(a)
                               \/ x = 2 /\ m = Message(a, r.list, r.version)
                               \/ x = 3 /\ slot = V!SlotFor(a, r.version)
                               \/ x = 4 /\ Cardinality(KS) >= a.t

\* The checks depend on the keys, the message and the slot of the group only.
LEMMA ShapeOfGroup ==
  ASSUME NEW a, NEW r, NEW KS, KS # {}, NEW m, NEW slot,
         r.proof.claims = Group(KS, m, slot)
  PROVE  ShapeIs(a, r, KS, m, slot)
<1> DEFINE g == [slot |-> slot, message |-> m]
           signers == V!XmssSigners(r.proof)
           group == CHOOSE x \in signers : TRUE
           claim(k) == [key |-> k, message |-> m, slot |-> slot]
<1>0. /\ \A c \in r.proof.claims : \E k \in KS : c = claim(k)
      /\ \A k \in KS : claim(k) \in r.proof.claims
      /\ \A k \in KS : claim(k).key = k /\ claim(k).message = m /\ claim(k).slot = slot
  BY DEF Group
<1>1. V!PubKeys(r.proof) = KS
  <2>1. V!PubKeys(r.proof) = {c.key : c \in r.proof.claims}
    BY DEF V!PubKeys
  <2> HIDE DEF claim
  <2> QED BY <1>0, <2>1
<1>2. V!XmssSigners(r.proof) = {g}
  <2>1. V!XmssSigners(r.proof) = {[slot |-> c.slot, message |-> c.message] : c \in r.proof.claims}
    BY DEF V!XmssSigners
  <2>2. PICK k \in KS : TRUE
    OBVIOUS
  <2>3. \A c \in r.proof.claims : c.slot = slot /\ c.message = m
    BY <1>0
  <2>4. claim(k) \in r.proof.claims
    BY <1>0
  <2> QED BY <2>1, <2>3, <2>4
<1>3. group = g
  <2> HIDE DEF g
  <2> QED BY <1>2
<1>4. group.message = m /\ group.slot = slot
  <2> HIDE DEF group
  <2> QED BY <1>3
<1>5. Shape(a, r) = (IF V!PubKeys(r.proof) \subseteq V!MembersOf(a) THEN {1} ELSE {})
                    \cup (IF group.message = Message(a, r.list, r.version) THEN {2} ELSE {})
                    \cup (IF group.slot = V!SlotFor(a, r.version) THEN {3} ELSE {})
                    \cup (IF Cardinality(V!PubKeys(r.proof)) >= a.t THEN {4} ELSE {})
  BY Zenon DEF Shape
<1> HIDE DEF group
<1> QED BY <1>1, <1>4, <1>5 DEF ShapeIs

\* Where the signatures of a control belong, if its record has the version v.
ControlSlot(a, c, v) ==
  IF c = "slot" THEN V!SlotFor(a, LateVersion(v)) ELSE IF c = "version" THEN SpoofSlot(a) ELSE V!SlotFor(a, v)

\* The version that a control's record carries, and its list.
ControlVersion(c, v) == IF c = "version" THEN KeySlots ELSE v
ControlList(c, list) == IF c = "tampered" THEN Append(list, Fake) ELSE list

\* How many of a row's signatures a control's proof is of.
ControlSigners(c) == IF c = "short" THEN T - 1 ELSE T

\* The control that is made of a record and the row of its keys.
MadeOf(run, c, r, K) ==
  LET a == Anchor(run)
  IN ControlRecord(a, c, r, Inputs(K, Message(a, r.list, r.version), ControlSlot(a, c, r.version)))

\* What it is.
ControlIs(run, c, r, K) ==
  LET a == Anchor(run)
      rec == MadeOf(run, c, r, K)
  IN /\ rec.list = ControlList(c, r.list) /\ rec.version = ControlVersion(c, r.version)
     /\ rec.proof.claims =
          Group({K[i] : i \in 0 .. ControlSigners(c) - 1}, Message(a, r.list, r.version),
                ControlSlot(a, c, r.version))
     /\ rec.proof.body = (c # "proofbody")

\* Every control is made of its row in this way.
LEMMA ControlOfRow ==
  ASSUME NEW run \in Run, NEW c \in Control, NEW K, NEW r
  PROVE  ControlIs(run, c, r, K)
<1> DEFINE a == Anchor(run)
           list == r.list
           v == r.version
           m == Message(a, list, v)
           slot == ControlSlot(a, c, v)
           in == Inputs(K, m, slot)
           claims(j) == Group({K[i] : i \in 0 .. j - 1}, m, slot)
           agg(j) == Aggregate(SubSeq(in, 1, j), m, slot)
<1>1. SubSeq(in, 1, T) = in
  BY Params DEF Inputs
<1>2. /\ agg(T).claims = claims(T) /\ agg(T).body = TRUE
      /\ agg(T - 1).claims = claims(T - 1) /\ agg(T - 1).body = TRUE
  <2> HIDE DEF m, slot
  <2>1. ASSUME NEW j \in 0 .. T PROVE agg(j).claims = claims(j) /\ agg(j).body = TRUE
    BY AggregateOfRow
  <2>2. T \in 0 .. T /\ T - 1 \in 0 .. T
    BY Params
  <2> HIDE DEF agg, claims
  <2> QED BY <2>1, <2>2
<1>3. /\ c \notin {"slot", "version"} => slot = V!SlotFor(a, v)
      /\ c = "slot" => slot = V!SlotFor(a, LateVersion(v))
      /\ c = "version" => slot = SpoofSlot(a)
  BY DEF ControlSlot
<1> HIDE DEF in, slot
<1>4. Aggregate(in, m, slot) = agg(T)
  BY <1>1
<1>5. /\ c \notin {"slot", "version"} => Proof(a, r, in) = agg(T)
      /\ c = "short" => Proof(a, r, SubSeq(in, 1, T - 1)) = agg(T - 1)
  BY <1>3, <1>4 DEF Proof
<1> DEFINE shown == [Proof(a, r, in) EXCEPT !.body = FALSE]
<1>6. c = "proofbody" => shown.claims = claims(T) /\ shown.body = FALSE
  <2>1. Proof(a, r, in) = [V!MakeAggregate({in[i][1] : i \in DOMAIN in}, Message(a, r.list, r.version), V!SlotFor(a, r.version)) EXCEPT
                             !.body = \A i \in DOMAIN in : V!XmssVerify(in[i][1], Message(a, r.list, r.version), in[i][2], V!SlotFor(a, r.version))]
    BY Zenon DEF Proof, Aggregate
  <2>2. shown.claims = Proof(a, r, in).claims /\ shown.body = FALSE
    BY <2>1 DEF V!MakeAggregate, V!Aggregate
  <2> QED BY <1>2, <1>5, <2>2
<1> HIDE DEF m, a, agg, claims, shown
<1> DEFINE rec == ControlRecord(a, c, r, in)
           done == /\ rec.list = ControlList(c, list) /\ rec.version = ControlVersion(c, v)
                   /\ rec.proof.claims = claims(ControlSigners(c))
                   /\ rec.proof.body = (c # "proofbody")
<1> HIDE DEF rec
<1>7. ASSUME c \in {"tampered", "outsider"} PROVE done
  <2>1. rec = Snark(ControlList(c, list), v, agg(T))
    BY <1>5, <1>7 DEF ControlRecord, ControlList, rec
  <2> QED BY <1>2, <1>7, <2>1 DEF Snark, V!SnarkRecord, ControlVersion, ControlSigners
<1>8. ASSUME c = "proofbody" PROVE done
  <2>1. rec = Snark(ControlList(c, list), v, shown)
    BY <1>8 DEF ControlRecord, ControlList, shown, rec
  <2> QED BY <1>6, <1>8, <2>1 DEF Snark, V!SnarkRecord, ControlVersion, ControlSigners
<1>9. ASSUME c = "short" PROVE done
  <2>1. rec = Snark(ControlList(c, list), v, agg(T - 1))
    BY <1>5, <1>9 DEF ControlRecord, ControlList, rec
  <2> QED BY <1>2, <1>9, <2>1 DEF Snark, V!SnarkRecord, ControlVersion, ControlSigners
<1>10. ASSUME c = "slot" PROVE done
  <2>1. rec = Snark(ControlList(c, list), v, agg(T))
    BY <1>3, <1>4, <1>10 DEF ControlRecord, ControlList, m, rec
  <2> QED BY <1>2, <1>10, <2>1 DEF Snark, V!SnarkRecord, ControlVersion, ControlSigners
<1>11. ASSUME c = "version" PROVE done
  <2>1. rec = Snark(ControlList(c, list), KeySlots, agg(T))
    BY <1>3, <1>4, <1>11 DEF ControlRecord, ControlList, m, rec
  <2> QED BY <1>2, <1>11, <2>1 DEF Snark, V!SnarkRecord, ControlVersion, ControlSigners
<1>12. done
  BY <1>7, <1>8, <1>9, <1>10, <1>11 DEF Control
<1>13. rec = MadeOf(run, c, r, K)
  BY Zenon DEF MadeOf, rec, in, slot, m, a
<1> QED BY <1>12, <1>13, Zenon DEF ControlIs, slot, m, a, claims

\* Appending the fake entry makes another list and so another message.
LEMMA OtherList ==
  ASSUME NEW a, NEW list \in Seq(Entry), NEW v
  PROVE  Message(a, Append(list, Fake), v) # Message(a, list, v)
<1>1. Append(list, Fake) # list
  <2>1. Len(list) \in Nat /\ Len(Append(list, Fake)) = Len(list) + 1
    OBVIOUS
  <2> QED BY <2>1
<1>2. Message(a, Append(list, Fake), v).list = Append(list, Fake) /\ Message(a, list, v).list = list
  BY DEF Message, V!MessageFor
<1> QED BY <1>1, <1>2, Zenon

\* Another version is another message.
LEMMA OtherVersion ==
  ASSUME NEW a, NEW list, NEW v, NEW w, v # w
  PROVE  Message(a, list, w) # Message(a, list, v)
<1>1. Message(a, list, v).version = v /\ Message(a, list, w).version = w
  BY DEF Message, V!MessageFor
<1> QED BY <1>1, Zenon

\* A control that is made of a row of the right keys is refused by its own check only.
LEMMA ControlWellMade ==
  ASSUME NEW run \in Run, NEW c \in Control, NEW K, \A i \in FirstT : K[i].index = i,
         NEW list \in Seq(Entry), NEW v \in Nat, v + 1 < KeySlots, c = "short" => T >= 2,
         NEW r, r.list = list, r.version = v,
         c # "outsider" => K = MemberKeys(run), c = "outsider" => K[0].outsider
  PROVE  /\ WellMade(Anchor(run), c, MadeOf(run, c, r, K))
         /\ MadeOf(run, c, r, K).proof.claims \subseteq
              Row(K, Message(Anchor(run), list, v), ControlSlot(Anchor(run), c, v))
<1> DEFINE a == Anchor(run)
           m == Message(a, list, v)
           slot == ControlSlot(a, c, v)
           rec == MadeOf(run, c, r, K)
           j == ControlSigners(c)
           KS == {K[i] : i \in 0 .. j - 1}
<1>1. /\ rec.list = ControlList(c, list) /\ rec.version = ControlVersion(c, v)
      /\ rec.proof.claims = Group(KS, m, slot)
      /\ rec.proof.body = (c # "proofbody")
  <2>1. ControlIs(run, c, r, K)
    BY ControlOfRow
  <2>2. /\ rec.list = ControlList(c, r.list) /\ rec.version = ControlVersion(c, r.version)
        /\ rec.proof.claims = Group(KS, Message(a, r.list, r.version), ControlSlot(a, c, r.version))
        /\ rec.proof.body = (c # "proofbody")
    BY <2>1, Zenon DEF ControlIs
  <2> QED BY <2>2
<1>2. j \in 0 .. T /\ 0 \in 0 .. j - 1 /\ (j >= T <=> c # "short")
  BY Params DEF ControlSigners
<1>3. Cardinality(KS) = j /\ \A i \in 0 .. j - 1 : i \in FirstT
  <2> HIDE DEF j
  <2> QED BY <1>2, KeyCount
<1> HIDE DEF j
<1>4. K[0] \in KS /\ KS # {}
  BY <1>2
<1>5. KS \subseteq V!MembersOf(a) <=> c # "outsider"
  <2>1. V!MembersOf(a) = {[run |-> run, outsider |-> FALSE, index |-> i] : i \in Member}
    BY CommitteeMembers
  <2>2. ASSUME c # "outsider" PROVE KS \subseteq V!MembersOf(a)
    <3>1. \A i \in FirstT : K[i] = [run |-> run, outsider |-> FALSE, index |-> i] /\ i \in Member
      BY <2>2, Params DEF MemberKeys
    <3>2. ASSUME NEW k \in KS PROVE k \in V!MembersOf(a)
      <4>1. PICK i \in 0 .. j - 1 : k = K[i]
        OBVIOUS
      <4>2. i \in Member /\ k = [run |-> run, outsider |-> FALSE, index |-> i]
        BY <1>3, <3>1, <4>1
      <4> QED BY <2>1, <4>2
    <3> QED BY <3>2
  <2>3. ASSUME c = "outsider" PROVE ~(KS \subseteq V!MembersOf(a))
    <3>1. \A k \in V!MembersOf(a) : ~k.outsider
      BY <2>1
    <3> QED BY <1>4, <2>3, <3>1
  <2> QED BY <2>2, <2>3
<1>6. m = Message(a, rec.list, rec.version) <=> c \notin {"tampered", "version"}
  <2> HIDE DEF rec, a
  <2>1. v # KeySlots
    BY Params
  <2>2. CASE c = "tampered"
    <3>1. rec.list = Append(list, Fake) /\ rec.version = v
      BY <1>1, <2>2 DEF ControlList, ControlVersion
    <3>2. Message(a, Append(list, Fake), v) # Message(a, list, v)
      BY OtherList
    <3> QED BY <2>2, <3>1, <3>2
  <2>3. CASE c = "version"
    <3>1. rec.list = list /\ rec.version = KeySlots
      BY <1>1, <2>3 DEF ControlList, ControlVersion
    <3>2. Message(a, list, KeySlots) # Message(a, list, v)
      BY <2>1, OtherVersion
    <3> QED BY <2>3, <3>1, <3>2
  <2>4. CASE c \notin {"tampered", "version"}
    <3>1. rec.list = list /\ rec.version = v
      BY <1>1, <2>4 DEF ControlList, ControlVersion
    <3> QED BY <2>4, <3>1
  <2> QED BY <2>2, <2>3, <2>4
<1>7. slot = V!SlotFor(a, rec.version) <=> c # "slot"
  <2> HIDE DEF rec
  <2>1. /\ V!SlotFor(a, v) = Genesis + v /\ V!SlotFor(a, v + 1) = Genesis + (v + 1)
        /\ Genesis + v # Genesis + (v + 1)
    BY Params, Slots
  <2> HIDE DEF a
  <2> QED BY <1>1, <2>1 DEF ControlSlot, ControlVersion, LateVersion, SpoofSlot
<1>8. Cardinality(KS) >= a.t <=> c # "short"
  BY <1>2, <1>3, Anchors
<1>9. \A x : x \in Shape(a, rec) <=> \/ x = 1 /\ KS \subseteq V!MembersOf(a)
                                     \/ x = 2 /\ m = Message(a, rec.list, rec.version)
                                     \/ x = 3 /\ slot = V!SlotFor(a, rec.version)
                                     \/ x = 4 /\ Cardinality(KS) >= a.t
  <2> HIDE DEF rec, a, m, slot, KS
  <2>1. rec.proof.claims = Group(KS, m, slot) /\ KS # {}
    BY <1>1, <1>4
  <2>2. ShapeIs(a, rec, KS, m, slot)
    BY <2>1, ShapeOfGroup
  <2> QED BY <2>2 DEF ShapeIs
<1> HIDE DEF rec, a, m, slot, KS
<1>10. \A x : x \in Shape(a, rec) <=> \/ x = 1 /\ c # "outsider"
                                      \/ x = 2 /\ c \notin {"tampered", "version"}
                                      \/ x = 3 /\ c # "slot"
                                      \/ x = 4 /\ c # "short"
  BY <1>5, <1>6, <1>7, <1>8, <1>9
<1>11. Shape(a, rec) = 1 .. 4 \ {OwnCheck[c]}
  BY <1>10 DEF OwnCheck, Control
<1>12. WellMade(a, c, rec)
  BY <1>1, <1>11 DEF WellMade
<1>13. rec.proof.claims \subseteq Row(K, m, slot)
  BY <1>1, <1>3 DEF Row, KS, Group
<1> QED BY <1>12, <1>13 DEF rec, a, m, slot

\* The keys of a row have the indices of their places and the run they are of.
LEMMA KeyRows ==
  ASSUME NEW run
  PROVE  \A K \in {MemberKeys(run), MixedKeys(run), OutsiderKeys(run)} :
           /\ \A i \in FirstT : K[i].index = i
           /\ \A m, slot : \A s \in Row(K, m, slot) : s.key.run = run
<1>1. \A i \in FirstT : /\ MemberKeys(run)[i].index = i /\ MemberKeys(run)[i].run = run
                        /\ MixedKeys(run)[i].index = i /\ MixedKeys(run)[i].run = run
                        /\ OutsiderKeys(run)[i].index = i /\ OutsiderKeys(run)[i].run = run
  BY DEF MemberKeys, MixedKeys, OutsiderKeys
<1>2. ASSUME NEW K \in {MemberKeys(run), MixedKeys(run), OutsiderKeys(run)}, NEW m, NEW slot, NEW s \in Row(K, m, slot)
      PROVE  s.key.run = run
  <2>1. PICK i \in FirstT : s = [key |-> K[i], message |-> m, slot |-> slot]
    BY DEF Row
  <2>2. K[i].run = run
    BY <1>1
  <2> QED BY <2>1, <2>2
<1> QED BY <1>1, <1>2

\* What the first T members, or outsiders, sign is a row.
LEMMA RowOfMembers ==
  ASSUME NEW run, NEW m, NEW slot
  PROVE  /\ Signatures(Keys(run, FALSE, FirstT), m, slot) = Row(MemberKeys(run), m, slot)
         /\ Signatures(Keys(run, TRUE, FirstT), m, slot) = Row(OutsiderKeys(run), m, slot)
         /\ Signatures(Keys(run, TRUE, {0}), m, slot)
              \cup {s \in Row(MemberKeys(run), m, slot) : s.key.index # 0}
            = Row(MixedKeys(run), m, slot)
<1> DEFINE key(o, i) == [run |-> run, outsider |-> o, index |-> i]
           sig(o, i) == [key |-> key(o, i), message |-> m, slot |-> slot]
<1>1. ASSUME NEW o, NEW I PROVE Signatures(Keys(run, o, I), m, slot) = {sig(o, i) : i \in I}
  BY DEF Signatures, Keys
<1>2. /\ Row(MemberKeys(run), m, slot) = {sig(FALSE, i) : i \in FirstT}
      /\ Row(OutsiderKeys(run), m, slot) = {sig(TRUE, i) : i \in FirstT}
      /\ Row(MixedKeys(run), m, slot) = {sig(i = 0, i) : i \in FirstT}
  BY DEF Row, MemberKeys, OutsiderKeys, MixedKeys
<1>3. 0 \in FirstT
  BY Params
<1>4. \A i \in FirstT : sig(FALSE, i).key.index = i
  OBVIOUS
<1>5. {sig(TRUE, i) : i \in {0}} \cup {s \in {sig(FALSE, i) : i \in FirstT} : s.key.index # 0}
      = {sig(i = 0, i) : i \in FirstT}
  <2>1. \A i \in FirstT : (i = 0 => sig(i = 0, i) = sig(TRUE, i)) /\ (i # 0 => sig(i = 0, i) = sig(FALSE, i))
    OBVIOUS
  <2> DEFINE L == {sig(TRUE, i) : i \in {0}} \cup {s \in {sig(FALSE, i) : i \in FirstT} : s.key.index # 0}
             R == {sig(i = 0, i) : i \in FirstT}
  <2>2. ASSUME NEW i \in FirstT PROVE sig(i = 0, i) \in L
    <3>1. CASE i = 0
      <4>1. sig(i = 0, i) = sig(TRUE, 0)
        BY <3>1
      <4> HIDE DEF sig
      <4> QED BY <4>1
    <3>2. CASE i # 0
      <4>1. sig(i = 0, i) = sig(FALSE, i) /\ sig(FALSE, i).key.index # 0
        BY <1>4, <2>1, <3>2
      <4> HIDE DEF sig
      <4> QED BY <4>1
    <3> QED BY <3>1, <3>2
  <2>3. ASSUME NEW s \in L PROVE s \in R
    <3>1. CASE s = sig(TRUE, 0)
      <4>1. s = sig(0 = 0, 0)
        BY <3>1
      <4> HIDE DEF sig
      <4> QED BY <1>3, <4>1
    <3>2. CASE s # sig(TRUE, 0)
      <4>1. PICK i \in FirstT : s = sig(FALSE, i) /\ s.key.index # 0
        BY <3>2
      <4>2. s = sig(i = 0, i)
        BY <1>4, <2>1, <4>1
      <4> HIDE DEF sig
      <4> QED BY <4>2
    <3> QED BY <3>1, <3>2
  <2> HIDE DEF L, R
  <2>4. L = R
    BY <2>2, <2>3 DEF R
  <2> QED BY <2>4 DEF L, R
<1> QED BY <1>1, <1>2, <1>5

\* What the fixture and the programs by themselves sign for a control is a row.
LEMMA RowOfControl ==
  ASSUME NEW run, NEW list, NEW n
  PROVE  LET a == Anchor(run) IN
         /\ Signs(a, run, list, n, "honest") = Row(MemberKeys(run), Message(a, list, n), V!SlotFor(a, n))
         /\ Signs(a, run, list, n, "slot")
              = Row(MemberKeys(run), Message(a, list, n), V!SlotFor(a, LateVersion(n)))
         /\ Signs(a, run, list, n, "version") = Row(MemberKeys(run), Message(a, list, n - 1), SpoofSlot(a))
         /\ MixedSignatures(run, list, n) = Row(MixedKeys(run), Message(a, list, n), V!SlotFor(a, n))
<1> DEFINE a == Anchor(run)
<1>1. /\ Signs(a, run, list, n, "honest") = Row(MemberKeys(run), Message(a, list, n), V!SlotFor(a, n))
      /\ Signs(a, run, list, n, "slot") = Row(MemberKeys(run), Message(a, list, n), V!SlotFor(a, LateVersion(n)))
      /\ Signs(a, run, list, n, "version") = Row(MemberKeys(run), Message(a, list, n - 1), SpoofSlot(a))
  BY RowOfMembers DEF Signs
<1>2. MixedSignatures(run, list, n) = Row(MixedKeys(run), Message(a, list, n), V!SlotFor(a, n))
  <2> DEFINE m == Message(a, list, n)
             slot == V!SlotFor(a, n)
             S == Signs(a, run, list, n, "honest")
  <2>1. MixedSignatures(run, list, n) = Signatures(Keys(run, TRUE, {0}), m, slot) \cup {s \in S : s.key.index # 0}
    BY Zenon DEF MixedSignatures
  <2>2. S = Row(MemberKeys(run), m, slot)
    BY <1>1
  <2> HIDE DEF m, slot, S
  <2>3. MixedSignatures(run, list, n) = Row(MixedKeys(run), m, slot)
    BY <2>1, <2>2, RowOfMembers
  <2> QED BY <2>3 DEF m, slot
<1> QED BY <1>1, <1>2

\* Where the fixture's record for a control comes from: the quorum, or the quorum with
\* an outsider.
SourceKeys(run, c) == IF c = "outsider" THEN MixedKeys(run) ELSE MemberKeys(run)

\* What the fixture signs for a control is a row of those keys.
LEMMA SourceRow ==
  ASSUME NEW run, NEW list, NEW n, NEW c \in Control
  PROVE  FixtureSignatures(run, list, n, SourceOf(c))
           = Row(SourceKeys(run, c), Message(Anchor(run), list, FixtureVersion(n, c)),
                 ControlSlot(Anchor(run), c, FixtureVersion(n, c)))
<1> DEFINE a == Anchor(run)
<1>1. /\ Signs(a, run, list, n, "honest") = Row(MemberKeys(run), Message(a, list, n), V!SlotFor(a, n))
      /\ Signs(a, run, list, n, "slot")
           = Row(MemberKeys(run), Message(a, list, n), V!SlotFor(a, LateVersion(n)))
      /\ Signs(a, run, list, n, "version") = Row(MemberKeys(run), Message(a, list, n - 1), SpoofSlot(a))
      /\ MixedSignatures(run, list, n) = Row(MixedKeys(run), Message(a, list, n), V!SlotFor(a, n))
  BY RowOfControl, Zenon
<1> HIDE DEF a
<1>2. CASE c \in {"tampered", "proofbody", "short"}
  BY <1>1, <1>2 DEF FixtureSignatures, SourceOf, SourceKeys, FixtureVersion, ControlSlot, a
<1>3. CASE c = "slot"
  BY <1>1, <1>3 DEF FixtureSignatures, SourceOf, SourceKeys, FixtureVersion, ControlSlot, a
<1>4. CASE c = "version"
  BY <1>1, <1>4 DEF FixtureSignatures, SourceOf, SourceKeys, FixtureVersion, ControlSlot, a
<1>5. CASE c = "outsider"
  BY <1>1, <1>5 DEF FixtureSignatures, SourceOf, SourceKeys, FixtureVersion, ControlSlot, a
<1> QED BY <1>2, <1>3, <1>4, <1>5 DEF Control

\* The fixture signs with keys of its run.
LEMMA FixtureKeys ==
  ASSUME NEW run, NEW list, NEW n, NEW c \in RawControl, NEW s \in FixtureSignatures(run, list, n, c)
  PROVE  s.key.run = run
<1>1. PICK d \in Control : c = SourceOf(d)
  <2>1. CASE c = "honest"
    BY <2>1 DEF SourceOf, Control
  <2>2. CASE c # "honest"
    BY <2>2 DEF SourceOf, Control, RawControl
  <2> QED BY <2>1, <2>2
<1> DEFINE m == Message(Anchor(run), list, FixtureVersion(n, d))
           slot == ControlSlot(Anchor(run), d, FixtureVersion(n, d))
<1>2. s \in Row(SourceKeys(run, d), m, slot)
  BY <1>1, SourceRow
<1>3. SourceKeys(run, d) \in {MemberKeys(run), MixedKeys(run), OutsiderKeys(run)}
  BY DEF SourceKeys
<1> HIDE DEF m, slot
<1> QED BY <1>2, <1>3, KeyRows

\* The fixture's anchors name the keys of the rows.
LEMMA AnchorKeys ==
  ASSUME NEW run
  PROVE  /\ \A i \in 1 .. T : Anchor(run).members[i] = MemberKeys(run)[i - 1]
         /\ \A i \in 1 .. T : OutsiderAnchor(run).members[i] = MixedKeys(run)[i - 1]
<1> DEFINE key(o, i) == [run |-> run, outsider |-> o, index |-> i]
           a == Anchor(run)
<1>1. \A i \in 1 .. T : i \in 1 .. Size /\ i - 1 \in FirstT
  BY Params DEF FirstT
<1>2. /\ a.members = [i \in 1 .. Size |-> key(FALSE, i - 1)]
      /\ DOMAIN a = {"tag", "t", "genesis", "members"}
  BY DEF Anchor
<1>3. \A i \in 1 .. T : a.members[i] = MemberKeys(run)[i - 1]
  BY <1>1, <1>2 DEF MemberKeys
<1> DEFINE mixed == [a.members EXCEPT ![1].outsider = TRUE]
<1>4. OutsiderAnchor(run).members = mixed
  BY <1>2 DEF OutsiderAnchor
<1>5. \A i \in FirstT : i # 0 => MixedKeys(run)[i] = key(FALSE, i)
  <2>1. \A i \in FirstT : MixedKeys(run)[i] = key(i = 0, i)
    BY DEF MixedKeys
  <2>2. \A i \in FirstT : i # 0 => key(i = 0, i) = key(FALSE, i)
    OBVIOUS
  <2> HIDE DEF key
  <2> QED BY <2>1, <2>2
<1>6. ASSUME NEW i \in 1 .. T PROVE mixed[i] = MixedKeys(run)[i - 1]
  <2>1. CASE i = 1
    <3>1. 1 \in 1 .. Size /\ 0 \in FirstT /\ a.members[1] = key(FALSE, 0)
      BY <1>1, <1>2, <2>1
    <3>2. mixed[1] = [a.members[1] EXCEPT !.outsider = TRUE]
      BY <1>2, <3>1
    <3>3. ASSUME NEW k, NEW o, NEW q, k = key(o, 0) PROVE [k EXCEPT !.outsider = q] = key(q, 0)
      BY <3>3
    <3>4. mixed[1] = key(TRUE, 0) /\ MixedKeys(run)[0] = key(TRUE, 0)
      <4> DEFINE yes == TRUE
                 no == FALSE
                 k == a.members[1]
      <4>1. k = key(no, 0) /\ mixed[1] = [k EXCEPT !.outsider = yes]
        BY <3>1, <3>2
      <4> HIDE DEF yes, no, k
      <4>2. [k EXCEPT !.outsider = yes] = key(yes, 0)
        BY <3>3, <4>1
      <4>3. mixed[1] = key(yes, 0)
        BY <4>1, <4>2
      <4> HIDE DEF key, mixed, a
      <4>4. mixed[1] = key(TRUE, 0)
        BY <4>3, Zenon DEF yes
      <4>5. MixedKeys(run)[0] = key(TRUE, 0)
        <5> DEFINE here == key(0 = 0, 0)
        <5>1. MixedKeys(run)[0] = here
          BY <3>1 DEF MixedKeys, key
        <5>2. here = key(TRUE, 0)
          BY DEF key
        <5> HIDE DEF here
        <5> QED BY <5>1, <5>2, Zenon
      <4> QED BY <4>4, <4>5, Zenon
    <3>5. i - 1 = 0
      BY <2>1
    <3> HIDE DEF key, mixed, a
    <3> QED BY <2>1, <3>4, <3>5
  <2>2. CASE i # 1
    <3>1. i \in 1 .. Size /\ i - 1 \in FirstT /\ i - 1 # 0
      BY <1>1, <2>2
    <3>2. mixed[i] = a.members[i]
      BY <1>2, <2>2, <3>1
    <3>3. a.members[i] = key(FALSE, i - 1)
      BY <1>2, <3>1
    <3> HIDE DEF key, mixed, a
    <3> QED BY <1>5, <3>1, <3>2, <3>3
  <2> QED BY <2>1, <2>2
<1> QED BY <1>3, <1>4, <1>6

\* What prover makes of the fixture's record for a control.
LEMMA FixtureControlMade ==
  ASSUME NEW dir, NEW p, p.run \in Run, p.size \in Updates, NEW sigs, NEW c \in Control,
         FixtureControlIn(dir, p, sigs, SourceOf(c)), AttackFile(SourceOf(c)) \in DOMAIN dir,
         c = "short" => T >= 2, NEW named, c = "outsider" => named = OutsiderAnchor(p.run),
         c # "outsider" => named = Anchor(p.run), NEW r, r = dir[AttackFile(SourceOf(c))],
         NEW rec, rec = ControlRecord(Anchor(p.run), c, r, AggregationInputs(named, r))
  PROVE  WellMade(Anchor(p.run), c, rec) /\ \A s \in rec.proof.claims : s \in sigs /\ s.key.run = p.run
<1> DEFINE a == Anchor(p.run)
           list == r.list
           v == FixtureVersion(p.size, c)
           K == SourceKeys(p.run, c)
           m == Message(a, list, v)
           slot == ControlSlot(a, c, v)
<1>1. /\ list \in Seq(Entry)
      /\ r = Raw(list, FixtureVersion(p.size, SourceOf(c)), FixtureSignatures(p.run, list, p.size, SourceOf(c)))
      /\ FixtureSignatures(p.run, list, p.size, SourceOf(c)) \subseteq sigs
  BY Zenon DEF FixtureControlIn
<1>2. FixtureVersion(p.size, SourceOf(c)) = v
  BY DEF FixtureVersion, SourceOf
<1>3. FixtureSignatures(p.run, list, p.size, SourceOf(c)) = Row(K, m, slot)
  BY SourceRow
<1>4. v \in Nat /\ v + 1 < KeySlots
  <2>1. p.size \in Nat /\ p.size # 0 /\ p.size + 1 < KeySlots /\ KeySlots \in Nat
    BY Params
  <2>2. v = p.size \/ v = p.size - 1
    BY DEF FixtureVersion
  <2> HIDE DEF v
  <2> QED BY <2>1, <2>2
<1>5. /\ K \in {MemberKeys(p.run), MixedKeys(p.run), OutsiderKeys(p.run)}
      /\ c # "outsider" => K = MemberKeys(p.run)
      /\ c = "outsider" => K = MixedKeys(p.run)
  BY DEF SourceKeys
<1>6. \A i \in FirstT : K[i].index = i
  BY <1>5, KeyRows
<1>7. c = "outsider" => K[0].outsider
  <2>1. 0 \in FirstT
    BY Params
  <2> DEFINE o == (0 = 0)
  <2>2. MixedKeys(p.run)[0] = [run |-> p.run, outsider |-> o, index |-> 0]
    BY <2>1 DEF MixedKeys
  <2> HIDE DEF o
  <2>3. MixedKeys(p.run)[0].outsider = o
    BY <2>2
  <2> HIDE DEF K
  <2> QED BY <1>5, <2>3 DEF o
<1> HIDE DEF K, v, m, slot
<1>8. /\ r = Raw(list, v, Row(K, m, slot))
      /\ Row(K, m, slot) \subseteq sigs
  BY <1>1, <1>2, <1>3
<1>9. /\ r.version = v /\ r.bits = FirstT
      /\ r.sigs = [i \in 1 .. T |-> [key |-> K[i - 1], message |-> m, slot |-> slot]]
  <2> HIDE DEF list
  <2> QED BY <1>6, <1>8, RawOfRow
<1>10. \A i \in 1 .. T : named.members[i] = K[i - 1]
  BY <1>5, AnchorKeys
<1>11. AggregationInputs(named, r) = Inputs(K, m, slot)
  BY <1>9, <1>10, InputsOfRow
<1>12. rec = MadeOf(p.run, c, r, K)
  BY <1>9, <1>11, Zenon DEF MadeOf, m, slot
<1>13. /\ WellMade(Anchor(p.run), c, MadeOf(p.run, c, r, K))
       /\ MadeOf(p.run, c, r, K).proof.claims \subseteq Row(K, Message(Anchor(p.run), list, v), ControlSlot(Anchor(p.run), c, v))
  BY <1>1, <1>4, <1>5, <1>6, <1>7, <1>9, ControlWellMade
<1>14. \A s \in Row(K, m, slot) : s.key.run = p.run
  BY <1>5, KeyRows
<1> QED BY <1>8, <1>12, <1>13, <1>14 DEF m, slot

\* What prover by itself, or the demo, makes for a control.
LEMMA OwnControlMade ==
  ASSUME job.run \in Run, job.size \in Updates, job.list \in Seq(Entry), NEW c \in Control,
         c = "short" => T >= 2
  PROVE  /\ WellMade(Anchor(job.run), c, OwnControl(c))
         /\ OwnControl(c).proof.claims \subseteq OwnSignatures(c)
         /\ \A s \in OwnControl(c).proof.claims : s.key.run = job.run
<1> DEFINE run == job.run
           a == Anchor(run)
           list == IF c = "outsider" THEN OutsiderList ELSE job.list
           v == IF c = "version" THEN job.size - 1 ELSE IF c = "outsider" THEN 0 ELSE job.size
           K == IF c = "outsider" THEN OutsiderKeys(run) ELSE MemberKeys(run)
           m == Message(a, list, v)
           slot == ControlSlot(a, c, v)
           sigs == OwnSignatures(c)
           r == Raw(list, v, sigs)
<1>1. list \in Seq(Entry)
  <2>1. Fresh(job.run, -1, 0) \in Entry
    BY DEF Fresh, Entry
  <2>2. OutsiderList \in Seq(Entry)
    BY <2>1 DEF OutsiderList
  <2> QED BY <2>2
<1>2. v \in Nat /\ v + 1 < KeySlots
  <2>1. job.size \in Nat /\ job.size # 0 /\ job.size + 1 < KeySlots /\ KeySlots \in Nat
    BY Params
  <2>2. v = job.size \/ v = job.size - 1 \/ v = 0
    OBVIOUS
  <2> HIDE DEF v
  <2> QED BY <2>1, <2>2
<1>3. sigs = Row(K, m, slot)
  <2>1. CASE c = "outsider"
    <3>1. V!SlotFor(a, 0) = Genesis
      <4>1. 0 \in Nat /\ 0 <= KeySlots + 1
        BY Params
      <4>2. V!SlotFor(a, 0) = Genesis + 0
        BY <4>1, Slots
      <4> QED BY <4>2, Params
    <3>2. sigs = Signatures(Keys(run, TRUE, FirstT), Message(a, OutsiderList, 0), Genesis)
      BY <2>1 DEF OwnSignatures
    <3>3. K = OutsiderKeys(run) /\ m = Message(a, OutsiderList, 0) /\ slot = Genesis
      BY <2>1, <3>1 DEF ControlSlot
    <3> HIDE DEF K, m, slot, sigs
    <3> QED BY <3>2, <3>3, RowOfMembers
  <2>2. CASE c # "outsider"
    <3>1. sigs = FixtureSignatures(run, job.list, job.size, SourceOf(c))
      BY <2>2 DEF OwnSignatures, FixtureSignatures, SourceOf
    <3>2. K = SourceKeys(run, c) /\ list = job.list /\ v = FixtureVersion(job.size, c)
      BY <2>2 DEF SourceKeys, FixtureVersion
    <3> HIDE DEF K, list, v, sigs
    <3> QED BY <3>1, <3>2, SourceRow
  <2> QED BY <2>1, <2>2
<1>4. /\ K \in {MemberKeys(run), MixedKeys(run), OutsiderKeys(run)}
      /\ c # "outsider" => K = MemberKeys(run)
      /\ c = "outsider" => K = OutsiderKeys(run)
  OBVIOUS
<1>5. \A i \in FirstT : K[i].index = i
  BY <1>4, KeyRows
<1>6. c = "outsider" => K[0].outsider
  <2>1. OutsiderKeys(run)[0].outsider
    BY Params DEF OutsiderKeys
  <2> HIDE DEF K
  <2> QED BY <1>4, <2>1
<1>7. OwnControl(c) = ControlRecord(a, c, r, [i \in 1 .. T |-> <<r.sigs[i].key, r.sigs[i]>>])
  BY Zenon DEF OwnControl
<1> HIDE DEF K, v, m, slot, list, sigs
<1>8. r = Raw(list, v, Row(K, m, slot))
  BY <1>3
<1> HIDE DEF r
<1>9. /\ r.list = list /\ r.version = v
      /\ r.sigs = [i \in 1 .. T |-> [key |-> K[i - 1], message |-> m, slot |-> slot]]
  BY <1>5, <1>8, RawOfRow
<1>10. [i \in 1 .. T |-> <<r.sigs[i].key, r.sigs[i]>>] = Inputs(K, m, slot)
  BY <1>9 DEF Inputs
<1>11. OwnControl(c) = MadeOf(run, c, r, K)
  BY <1>7, <1>9, <1>10, Zenon DEF MadeOf, m, slot
<1>12. /\ WellMade(Anchor(run), c, MadeOf(run, c, r, K))
       /\ MadeOf(run, c, r, K).proof.claims \subseteq Row(K, Message(Anchor(run), list, v), ControlSlot(Anchor(run), c, v))
  BY <1>1, <1>2, <1>4, <1>5, <1>6, <1>9, ControlWellMade
<1>13. \A s \in Row(K, m, slot) : s.key.run = run
  BY <1>4, KeyRows
<1> QED BY <1>3, <1>11, <1>12, <1>13 DEF m, slot, sigs

\* A program is killed before it has written a whole file: files go, none comes.
Interrupted == TornFixtureAnchor \/ TornOutAnchor \/ PartlyClearedFixture \/ PartlyClearedOut
Left(old, new) == \A f \in DOMAIN new : f \in DOMAIN old /\ new[f] = old[f]

\* What such a kill leaves of either directory, and of what is known about it.
LEMMA WhatIsLeft ==
  ASSUME Interrupted
  PROVE  /\ Idle /\ job' = job /\ signed' = signed /\ mark' = mark
         /\ Left(fixture, fixture') /\ Left(out, out')
         /\ prepared' = prepared \/ (DOMAIN fixture' = {} /\ prepared' = Nothing)
         /\ made' = made \/ (DOMAIN out' = {} /\ made' = Nothing)
<1>1. Idle /\ job' = job /\ signed' = signed /\ mark' = mark
  BY DEF Interrupted, TornFixtureAnchor, TornOutAnchor, PartlyClearedFixture, PartlyClearedOut
<1>2. CASE TornFixtureAnchor \/ TornOutAnchor
  BY <1>1, <1>2 DEF TornFixtureAnchor, TornOutAnchor, Clear, Empty, Left
<1>3. CASE PartlyClearedFixture
  <2>1. PICK names : fixture' = Kept(fixture, names)
    BY <1>3 DEF PartlyClearedFixture
  <2>2. out' = out /\ prepared' = prepared /\ made' = made
    BY <1>3 DEF PartlyClearedFixture
  <2> QED BY <1>1, <2>1, <2>2 DEF Kept, Left
<1>4. CASE PartlyClearedOut
  <2>1. PICK names : out' = Kept(out, names)
    BY <1>4 DEF PartlyClearedOut
  <2>2. fixture' = fixture /\ prepared' = prepared /\ made' = made
    BY <1>4 DEF PartlyClearedOut
  <2> QED BY <1>1, <2>1, <2>2 DEF Kept, Left
<1> QED BY <1>2, <1>3, <1>4 DEF Interrupted

\* Only a program that works in memory takes its signatures with it, and no file is of
\* its run.
LEMMA SignaturesStay ==
  ASSUME IInv, [Next]_vars, NEW s \in signed, s.key.run \in {prepared.run, made.run}
  PROVE  s \in signed'
<1>0. JobInv /\ CoreTypes
  BY DEF IInv
<1>1. CASE Kill
  <2>1. job.by \in InMemory => s.key.run # job.run
    BY <1>0, JobTypes DEF JobInv
  <2> QED BY <1>1, <2>1 DEF Kill, SignedOnFile
<1>2. CASE Interrupted
  BY <1>2, WhatIsLeft
<1>3. CASE ~Kill /\ ~Interrupted
  <2>1. signed' = signed \/ \E new : Sign(new)
    BY <1>3 DEF Next, vars, FixtureStart, FixtureUpdate, FixtureControl, FixtureOutsiderAnchor, FixtureOutsider,
       ProverStart, ProveUpdate, WriteCanonical, ProveControl, SelfStart, SelfUpdate, SelfControl,
       MemoryStart, DemoUpdate, DemoControl, RawUpdate, RawControlSigned, SignAt,
       InitState, Verify, VerifyRefused, NewMarkPath, TornWrite, Interrupted
  <2> QED BY <2>1 DEF Sign
<1> QED BY <1>1, <1>2, <1>3

\* A control of the fixture that a step does not touch stays.
LEMMA FixtureControlStays ==
  ASSUME IInv, [Next]_vars, NEW c \in RawControl, FixtureControlIn(fixture, prepared, signed, c),
         prepared'.run = prepared.run, prepared'.size = prepared.size,
         AttackFile(c) \in DOMAIN fixture' =>
           AttackFile(c) \in DOMAIN fixture /\ fixture'[AttackFile(c)] = fixture[AttackFile(c)]
  PROVE  FixtureControlIn(fixture', prepared', signed', c)
<1> SUFFICES ASSUME AttackFile(c) \in DOMAIN fixture' PROVE FixtureControlIn(fixture', prepared', signed', c)
  BY DEF FixtureControlIn
<1> DEFINE r == fixture[AttackFile(c)]
           own == FixtureSignatures(prepared.run, r.list, prepared.size, c)
<1>1. r.list \in Seq(Entry) /\ r = Raw(r.list, FixtureVersion(prepared.size, c), own) /\ own \subseteq signed
  BY Zenon DEF FixtureControlIn
<1>2. \A s \in own : s.key.run = prepared.run
  BY FixtureKeys
<1>3. own \subseteq signed'
  BY <1>1, <1>2, SignaturesStay
<1>4. fixture'[AttackFile(c)] = r
  OBVIOUS
<1> HIDE DEF r
<1> QED BY <1>1, <1>3, <1>4 DEF FixtureControlIn

\* A control in the artifact directory that a step does not touch stays.
LEMMA OutControlStays ==
  ASSUME IInv, [Next]_vars, NEW c \in Control, OutControlIn(out, made.run, signed, c),
         AttackFile(c) \in DOMAIN out' =>
           /\ made'.run = made.run
           /\ AttackFile(c) \in DOMAIN out /\ out'[AttackFile(c)] = out[AttackFile(c)]
  PROVE  OutControlIn(out', made'.run, signed', c)
<1> SUFFICES ASSUME AttackFile(c) \in DOMAIN out' PROVE OutControlIn(out', made'.run, signed', c)
  BY DEF OutControlIn
<1>1. /\ WellMade(Anchor(made.run), c, out[AttackFile(c)])
      /\ \A s \in out[AttackFile(c)].proof.claims : s \in signed /\ s.key.run = made.run
  BY DEF OutControlIn
<1>2. \A s \in out[AttackFile(c)].proof.claims : s \in signed' /\ s.key.run = made.run
  BY <1>1, SignaturesStay
<1> QED BY <1>1, <1>2 DEF OutControlIn

\* How the program that runs changes: it ends, it starts or it goes on, and the list
\* changes with the updates only.
Moved ==
  \/ job' = job
  \/ job' = NoJob
  \/ job'.step = 0 /\ job'.size \in Nat
  \/ /\ job'.by = job.by /\ job'.run = job.run /\ job'.size = job.size
     /\ job'.step = job.step + 1 /\ job.by # "none"
     /\ job.step >= job.size => job'.list = job.list

\* Every step moves the program in one of these ways.
LEMMA JobMoves ==
  ASSUME IInv, [Next]_vars
  PROVE  Moved
<1> USE DEF Moved
<1>0. CoreTypes /\ JobInv
  BY DEF IInv
<1>1. job.step \in Nat /\ job.size \in Nat /\ runs \in Nat /\ job.list \in Seq(Entry)
  BY <1>0, JobTypes
<1>2. ASSUME Steps, job.by # "none" PROVE Moved
  BY <1>0, <1>2, StepFields
<1>3. ASSUME job.by # "none", job.step < job.size,
             \E l \in Seq(Entry) : job' = [job EXCEPT !.step = @ + 1, !.list = l]
      PROVE  Moved
  <2>1. PICK l \in Seq(Entry) : job' = [job EXCEPT !.step = @ + 1, !.list = l]
    BY <1>3
  <2>2. job'.by = job.by /\ job'.run = job.run /\ job'.size = job.size /\ job'.step = job.step + 1
    BY <1>0, <2>1, UpdateFields
  <2>3. ~(job.step >= job.size)
    BY <1>1, <1>3
  <2> QED BY <1>3, <2>2, <2>3
<1>4. ASSUME runs < MaxRuns, runs' = runs + 1,
             \E by \in Program, r \in Run \cup {0}, n \in Updates : job' = [NoJob EXCEPT !.by = by, !.run = r, !.size = n]
      PROVE  Moved
  <2>1. PICK by \in Program, r \in Run \cup {0}, n \in Updates : job' = [NoJob EXCEPT !.by = by, !.run = r, !.size = n]
    BY <1>4
  <2>2. job'.size = n /\ job'.step = 0
    BY <2>1, StartFields
  <2> QED BY <2>2, Params
<1>5. ASSUME runs < MaxRuns PROVE runs + 1 \in Run
  BY <1>1, <1>5, Params DEF Run
<1>6. CASE UNCHANGED vars
  BY <1>6 DEF vars
<1>7. CASE FixtureStart
  <2>1. PICK n \in Updates, e \in ListEntries :
          /\ runs < MaxRuns /\ runs' = runs + 1
          /\ job' = [NoJob EXCEPT !.by = "fixture", !.run = runs', !.size = n, !.entries = e]
    BY <1>7 DEF FixtureStart
  <2>2. runs' \in Run \cup {0} /\ "fixture" \in Program
    BY <1>5, <2>1 DEF Program
  <2>3. job'.size = n /\ job'.step = 0
    BY <2>1, <2>2, FixtureStartFields
  <2> QED BY <2>3, Params
<1>8. CASE FixtureUpdate
  <2>1. job.run \in Run /\ job.entries \in Nat
    BY <1>0, <1>8, JobTypes DEF FixtureUpdate, JobInv, Idle
  <2>2. AdvanceList(job.list, job.run, job.step, job.entries) \in Seq(Entry)
    BY <1>1, <2>1, AdvanceListType
  <2>3. /\ job.by = "fixture" /\ job.step < job.size
        /\ job' = [job EXCEPT !.step = @ + 1, !.list = AdvanceList(job.list, job.run, job.step, job.entries)]
    BY <1>8 DEF FixtureUpdate
  <2> QED BY <1>3, <2>2, <2>3
<1>9. CASE SelfUpdate \/ DemoUpdate \/ RawUpdate
  <2>1. /\ job.by # "none" /\ job.step < job.size
        /\ job' = [job EXCEPT !.step = @ + 1, !.list = NextList]
    BY <1>9 DEF SelfUpdate, DemoUpdate, RawUpdate
  <2>2. NextList \in Seq(Entry)
    BY <1>0, <2>1, NextListType DEF JobInv, Idle
  <2> QED BY <1>3, <2>1, <2>2
<1>10. CASE ProverStart
  <2>1. PICK n \in Updates, by \in {"prover", "honest-only"} :
          LET found == (by = "honest-only" \/ T >= 2) /\ AnchorFile \in DOMAIN fixture
              run == IF found THEN prepared.run ELSE 0
          IN /\ runs < MaxRuns /\ runs' = runs + 1
             /\ job' = IF found /\ Cardinality(UpdatesIn(FixtureNames)) = n
                       THEN [NoJob EXCEPT !.by = by, !.run = run, !.size = n] ELSE NoJob
    BY <1>10 DEF ProverStart
  <2> DEFINE run == IF (by = "honest-only" \/ T >= 2) /\ AnchorFile \in DOMAIN fixture THEN prepared.run ELSE 0
  <2>2. job' = [NoJob EXCEPT !.by = by, !.run = run, !.size = n] \/ job' = NoJob
    BY <2>1
  <2>3. run \in Run \cup {0} /\ by \in Program
    BY <1>0 DEF CoreTypes, Made, Program
  <2>4. runs < MaxRuns /\ runs' = runs + 1
    BY <2>1
  <2> HIDE DEF run
  <2> QED BY <1>4, <2>2, <2>3, <2>4
<1>11. CASE SelfStart
  <2>1. PICK n \in Updates :
          /\ runs < MaxRuns /\ runs' = runs + 1
          /\ job' = [NoJob EXCEPT !.by = "self", !.run = runs', !.size = n] \/ job' = NoJob
    BY <1>11 DEF SelfStart
  <2>2. runs' \in Run \cup {0} /\ "self" \in Program
    BY <1>5, <2>1 DEF Program
  <2> QED BY <1>4, <2>1, <2>2
<1>12. CASE MemoryStart
  <2>1. PICK n \in Updates, by \in InMemory :
          /\ runs < MaxRuns /\ runs' = runs + 1
          /\ job' = [NoJob EXCEPT !.by = by, !.run = runs', !.size = n]
    BY <1>12 DEF MemoryStart
  <2>2. runs' \in Run \cup {0} /\ by \in Program
    BY <1>5, <2>1 DEF Program, InMemory
  <2> QED BY <1>4, <2>1, <2>2
<1>13. CASE \/ FixtureControl \/ FixtureOutsiderAnchor \/ FixtureOutsider \/ ProveUpdate \/ WriteCanonical
            \/ ProveControl \/ SelfControl \/ DemoControl \/ RawControlSigned \/ Kill \/ TornWrite
  <2>1. (Steps \/ Ends) /\ job.by # "none"
    BY <1>13 DEF FixtureControl, FixtureOutsiderAnchor, FixtureOutsider, ProveUpdate, WriteCanonical,
       ProveControl, SelfControl, DemoControl, RawControlSigned, Kill, TornWrite, Idle
  <2> QED BY <1>2, <2>1 DEF Ends
<1>14. CASE InitState \/ Verify \/ VerifyRefused \/ NewMarkPath \/ Interrupted
  BY <1>14, WhatIsLeft DEF InitState, Verify, VerifyRefused, NewMarkPath
<1> QED BY <1>6, <1>7, <1>8, <1>9, <1>10, <1>11, <1>12, <1>13, <1>14 DEF Next, Interrupted

\* Whose step it is, if the program that runs goes on.
LEMMA WhoSteps ==
  ASSUME [Next]_vars, ~Idle, job' # job, job' # NoJob
  PROVE  /\ job.by = "fixture" => FixtureUpdate \/ FixtureControl \/ FixtureOutsiderAnchor
         /\ job.by \in {"prover", "honest-only"} => ProveUpdate \/ WriteCanonical \/ ProveControl
         /\ job.by = "self" => SelfUpdate \/ WriteCanonical \/ SelfControl
         /\ job.by = "demo" => DemoUpdate \/ DemoControl
<1>1. ~(FixtureStart \/ ProverStart \/ SelfStart \/ MemoryStart \/ InitState \/ Verify \/ VerifyRefused \/ NewMarkPath)
  BY DEF FixtureStart, ProverStart, SelfStart, MemoryStart, InitState, Verify, VerifyRefused, NewMarkPath
<1>2. ~Kill /\ ~TornWrite /\ ~FixtureOutsider /\ ~UNCHANGED vars /\ ~Interrupted
  BY WhatIsLeft DEF Kill, TornWrite, FixtureOutsider, Ends, vars
<1>3. FixtureUpdate \/ FixtureControl \/ FixtureOutsiderAnchor => job.by = "fixture"
  BY DEF FixtureUpdate, FixtureControl, FixtureOutsiderAnchor
<1>4. ProveUpdate \/ ProveControl => job.by \in {"prover", "honest-only"}
  BY DEF ProveUpdate, ProveControl
<1>5. WriteCanonical => job.by \in {"prover", "honest-only", "self"}
  BY DEF WriteCanonical
<1>6. SelfUpdate \/ SelfControl => job.by = "self"
  BY DEF SelfUpdate, SelfControl
<1>7. (DemoUpdate \/ DemoControl => job.by = "demo") /\ (RawUpdate \/ RawControlSigned => job.by = "raw")
  BY DEF DemoUpdate, DemoControl, RawUpdate, RawControlSigned
<1> QED BY <1>1, <1>2, <1>3, <1>4, <1>5, <1>6, <1>7 DEF Next, Interrupted

\* Signatures of the program that runs, if it writes files, stay.
LEMMA OwnStay ==
  ASSUME IInv, [Next]_vars, job.by \in {"fixture", "self"}, NEW s \in signed, s.key.run = job.run
  PROVE  s \in signed'
<1>1. job.run \in {prepared.run, made.run}
  BY DEF IInv, JobInv, Making
<1> QED BY <1>1, SignaturesStay

\* The honest signatures are there for the controls after the first.
LEMMA HonestStep ==
  ASSUME IInv, [Next]_vars, HonestInv
  PROVE  HonestInv'
<1>0. CoreTypes /\ JobInv
  BY DEF IInv
<1>1. job.step \in Nat /\ job.size \in Nat
  BY <1>0, JobTypes
<1> SUFFICES ASSUME \/ job'.by = "fixture" /\ job'.step > job'.size
                    \/ job'.by = "self" /\ job'.step > job'.size + 1
             PROVE  Signs(Anchor(job'.run), job'.run, job'.list, job'.size, "honest") \subseteq signed'
  BY DEF HonestInv
<1>2. /\ job'.by = job.by /\ job'.run = job.run /\ job'.size = job.size
      /\ job'.step = job.step \/ job'.step = job.step + 1
      /\ job'.list = job.list
  <2>1. job' # NoJob
    BY NoJobFields
  <2>2. ~(job'.step = 0 /\ job'.size \in Nat)
    OBVIOUS
  <2>3. Moved
    BY JobMoves
  <2>4. \/ job' = job
        \/ /\ job'.by = job.by /\ job'.run = job.run /\ job'.size = job.size
           /\ job'.step = job.step + 1
           /\ job.step >= job.size => job'.list = job.list
    BY <2>1, <2>2, <2>3, Zenon DEF Moved
  <2> QED BY <1>1, <2>4
<1> DEFINE honest == Signs(Anchor(job.run), job.run, job.list, job.size, "honest")
<1>3. honest \subseteq signed => honest \subseteq signed'
  <2>1. job.run \in Run /\ job.size \in Updates
    BY <1>0, <1>2 DEF JobInv, Idle
  <2>2. \A s \in honest : s.key.run = job.run
    <3> DEFINE c == "honest"
    <3>1. c \in {"honest", "slot", "version"}
      OBVIOUS
    <3> HIDE DEF c
    <3>2. \A s \in Signs(Anchor(job.run), job.run, job.list, job.size, c) : s.key.run = job.run
      BY <2>1, <3>1, SignsOf
    <3> QED BY <3>2 DEF c
  <2> HIDE DEF honest
  <2> QED BY <1>2, <2>2, OwnStay
<1>4. honest \subseteq signed'
  <2>1. CASE \/ job.by = "fixture" /\ job.step > job.size
             \/ job.by = "self" /\ job.step > job.size + 1
    BY <1>3, <2>1 DEF HonestInv
  <2>2. CASE job.by = "fixture" /\ ~(job.step > job.size)
    <3>1. job.step = job.size /\ job'.step = job.step + 1
      BY <1>1, <1>2, <2>2
    <3>2. FixtureControl
      <4>1. job' # job /\ job' # NoJob
        BY <1>1, <1>2, <2>2, <3>1, NoJobFields
      <4>2. FixtureUpdate \/ FixtureControl \/ FixtureOutsiderAnchor
        BY <2>2, <4>1, WhoSteps DEF Idle
      <4>3. ~FixtureUpdate
        <5>1. FixtureUpdate => job.step < job.size
          BY Zenon DEF FixtureUpdate
        <5> QED BY <1>1, <3>1, <5>1
      <4>4. ~FixtureOutsiderAnchor
        BY <1>1, <3>1 DEF FixtureOutsiderAnchor
      <4> QED BY <4>2, <4>3, <4>4
    <3>3. job.step - job.size + 1 = 1 /\ FixtureControls[1] = "honest"
      BY <1>1, <3>1 DEF FixtureControls
    <3>4. Sign(honest)
      BY <3>2, <3>3, Zenon DEF FixtureControl
    <3> QED BY <3>4 DEF Sign
  <2>3. CASE job.by = "self" /\ ~(job.step > job.size + 1)
    <3>1. job.step = job.size + 1 /\ job'.step = job.step + 1
      BY <1>1, <1>2, <2>3
    <3>2. SelfControl
      <4>1. job' # job /\ job' # NoJob
        BY <1>1, <1>2, <2>3, <3>1, NoJobFields
      <4>2. SelfUpdate \/ WriteCanonical \/ SelfControl
        BY <2>3, <4>1, WhoSteps DEF Idle
      <4>3. ~SelfUpdate
        BY <1>1, <3>1 DEF SelfUpdate
      <4>4. ~WriteCanonical
        BY <1>1, <3>1 DEF WriteCanonical
      <4> QED BY <4>2, <4>3, <4>4
    <3>3. job.step - job.size = 1 /\ SelfControls[1] = "tampered"
      BY <1>1, <3>1 DEF SelfControls
    <3>4. Sign(IF "tampered" \in {"proofbody", "short"} THEN {} ELSE OwnSignatures("tampered"))
      BY <3>2, <3>3, Zenon DEF SelfControl
    <3>5. OwnSignatures("tampered") = honest
      BY DEF OwnSignatures, SourceOf
    <3> HIDE DEF honest
    <3> QED BY <3>4, <3>5 DEF Sign
  <2> QED BY <1>2, <2>1, <2>2, <2>3
<1> QED BY <1>2, <1>4

\* The demo's controls keep their signatures as long as it runs.
LEMMA DemoStep ==
  ASSUME IInv, [Next]_vars, DemoInv
  PROVE  DemoInv'
<1>0. CoreTypes /\ JobInv
  BY DEF IInv
<1>1. job.step \in Nat /\ job.size \in Nat
  BY <1>0, JobTypes
<1> SUFFICES ASSUME job'.by = "demo", NEW i \in 1 .. 3, i <= job'.step - job'.size
             PROVE  OwnSignatures(DemoControls[i])' \subseteq signed'
  BY DEF DemoInv, DemoControls
<1>2. /\ job'.by = job.by /\ job'.run = job.run /\ job'.size = job.size
      /\ job' = job \/ job'.step = job.step + 1
      /\ job'.list = job.list
  <2>1. job' # NoJob
    BY NoJobFields
  <2>2. ~(job'.step = 0 /\ job'.size \in Nat)
    OBVIOUS
  <2>3. Moved
    BY JobMoves
  <2>4. \/ job' = job
        \/ /\ job'.by = job.by /\ job'.run = job.run /\ job'.size = job.size
           /\ job'.step = job.step + 1
           /\ job.step >= job.size => job'.list = job.list
    BY <2>1, <2>2, <2>3, Zenon DEF Moved
  <2> QED BY <1>1, <2>4
<1> DEFINE c == DemoControls[i]
<1>3. OwnSignatures(c)' = OwnSignatures(c)
  BY <1>2 DEF OwnSignatures, OutsiderList
<1>4. signed' = signed \/ \E new : Sign(new)
  <2>1. ~Kill
    BY NoJobFields DEF Kill, Ends
  <2>2. CASE Interrupted
    BY <2>2, WhatIsLeft
  <2>3. CASE ~Interrupted
    BY <2>1, <2>3 DEF Next, vars, FixtureStart, FixtureUpdate, FixtureControl, FixtureOutsiderAnchor, FixtureOutsider,
       ProverStart, ProveUpdate, WriteCanonical, ProveControl, SelfStart, SelfUpdate, SelfControl,
       MemoryStart, DemoUpdate, DemoControl, RawUpdate, RawControlSigned, SignAt,
       InitState, Verify, VerifyRefused, NewMarkPath, TornWrite, Interrupted
  <2> QED BY <2>2, <2>3
<1>5. signed \subseteq signed'
  BY <1>4 DEF Sign
<1>6. OwnSignatures(c) \subseteq signed'
  <2>1. CASE i <= job.step - job.size
    <3>1. OwnSignatures(c) \subseteq signed
      BY <1>2, <2>1 DEF DemoInv, DemoControls
    <3> QED BY <1>5, <3>1
  <2>2. CASE ~(i <= job.step - job.size)
    <3>1. job'.step = job.step + 1 /\ i = job.step - job.size + 1 /\ job' # job /\ job.step >= job.size
      BY <1>1, <1>2, <2>2
    <3>2. DemoControl
      <4>1. job' # NoJob
        BY NoJobFields
      <4>2. DemoUpdate \/ DemoControl
        BY <1>2, <3>1, <4>1, WhoSteps DEF Idle
      <4>3. ~DemoUpdate
        BY <1>1, <3>1 DEF DemoUpdate
      <4> QED BY <4>2, <4>3
    <3>3. Sign(OwnSignatures(c))
      BY <3>1, <3>2, Zenon DEF DemoControl
    <3> QED BY <3>3 DEF Sign
  <2> QED BY <2>1, <2>2
<1> QED BY <1>3, <1>6

\* The controls of the fixture are made of signatures of its run.
LEMMA FixtureControlsStep ==
  ASSUME IInv, [Next]_vars, FixtureControlsInv, HonestInv
  PROVE  FixtureControlsInv'
<1>0. CoreTypes /\ JobInv
  BY DEF IInv
<1>1. /\ job.step \in Nat /\ job.size \in Nat /\ job.list \in Seq(Entry)
      /\ job.by = "fixture" => prepared.run = job.run /\ prepared.size = job.size
  BY <1>0, JobTypes DEF JobInv
<1>2. ASSUME prepared'.run = prepared.run, prepared'.size = prepared.size, NEW f,
             \A g \in DOMAIN fixture' : g # f => g \in DOMAIN fixture /\ fixture'[g] = fixture[g],
             \A c \in RawControl : f = AttackFile(c) => FixtureControlIn(fixture', prepared', signed', c),
             f = OutsiderFile => fixture'[OutsiderFile] = OutsiderAnchor(prepared'.run)
      PROVE  FixtureControlsInv'
  <2>1. ASSUME NEW c \in RawControl PROVE FixtureControlIn(fixture', prepared', signed', c)
    <3>1. CASE f = AttackFile(c)
      BY <1>2, <3>1
    <3>2. CASE f # AttackFile(c)
      <4>1. FixtureControlIn(fixture, prepared, signed, c)
        BY DEF FixtureControlsInv
      <4> QED BY <1>2, <3>2, <4>1, FixtureControlStays
    <3> QED BY <3>1, <3>2
  <2>2. OutsiderFile \in DOMAIN fixture' => fixture'[OutsiderFile] = OutsiderAnchor(prepared'.run)
    BY <1>2 DEF FixtureControlsInv
  <2> QED BY <2>1, <2>2 DEF FixtureControlsInv
<1>3. CASE FixtureStart
  <2>1. DOMAIN fixture' = {AnchorFile}
    <3>1. fixture' = Write(Clear(fixture), AnchorFile, Anchor(runs'))
      BY <1>3 DEF FixtureStart
    <3> QED BY <3>1 DEF Write, Clear, Empty
  <2>2. OutsiderFile \notin DOMAIN fixture' /\ \A c \in RawControl : AttackFile(c) \notin DOMAIN fixture'
    BY <2>1, Files
  <2> QED BY <2>2 DEF FixtureControlsInv, FixtureControlIn
<1>4. CASE FixtureUpdate
  <2>1. PICK record : fixture' = Write(fixture, UpdateFile(job.step), record)
    BY <1>4 DEF FixtureUpdate
  <2>2. prepared' = prepared
    BY <1>4 DEF FixtureUpdate, history
  <2>3. \A g \in DOMAIN fixture' : g # UpdateFile(job.step) => g \in DOMAIN fixture /\ fixture'[g] = fixture[g]
    BY <2>1 DEF Write
  <2> QED BY <1>2, <2>2, <2>3, Files
<1>5. CASE FixtureControl
  <2> DEFINE c == FixtureControls[job.step - job.size + 1]
             own == Signs(Anchor(job.run), job.run, job.list, job.size, c)
             r == Raw(job.list, IF c = "version" THEN job.size - 1 ELSE job.size, own)
  <2>1. /\ job.by = "fixture" /\ Sign(own)
        /\ fixture' = Write(fixture, AttackFile(c), r)
        /\ prepared' = prepared /\ job.step - job.size + 1 \in 1 .. 3
    <3>1. job.by = "fixture" /\ Sign(own) /\ fixture' = Write(fixture, AttackFile(c), r)
      BY <1>5, Zenon DEF FixtureControl
    <3>2. prepared' = prepared /\ job.step - job.size + 1 \in 1 .. 3
      BY <1>5 DEF FixtureControl, history, FixtureControls
    <3> QED BY <3>1, <3>2
  <2>2. c \in {"honest", "slot", "version"} /\ c \in RawControl
    BY <2>1 DEF FixtureControls, RawControl
  <2> HIDE DEF c
  <2>3. own = FixtureSignatures(prepared.run, job.list, prepared.size, c)
    BY <1>1, <2>1, <2>2 DEF FixtureSignatures
  <2>4. r = Raw(job.list, FixtureVersion(prepared.size, c), own)
    BY <1>1, <2>1 DEF FixtureVersion
  <2>5. own \subseteq signed'
    BY <2>1 DEF Sign
  <2>6. r.list = job.list
    BY <2>4 DEF Raw, V!StatusListNew, V!RawRecord
  <2> HIDE DEF own, r
  <2>7. fixture'[AttackFile(c)] = r
    BY <2>1 DEF Write
  <2>8. FixtureControlIn(fixture', prepared', signed', c)
    BY <1>1, <2>1, <2>3, <2>4, <2>5, <2>6, <2>7 DEF FixtureControlIn
  <2>9. \A g \in DOMAIN fixture' : g # AttackFile(c) => g \in DOMAIN fixture /\ fixture'[g] = fixture[g]
    BY <2>1 DEF Write
  <2> QED BY <1>2, <2>1, <2>8, <2>9, Files
<1>6. CASE FixtureOutsiderAnchor
  <2>1. /\ job.by = "fixture" /\ fixture' = Write(fixture, OutsiderFile, OutsiderAnchor(job.run))
        /\ prepared' = prepared
    BY <1>6 DEF FixtureOutsiderAnchor, history
  <2>2. fixture'[OutsiderFile] = OutsiderAnchor(job.run)
    BY <2>1 DEF Write
  <2>3. \A g \in DOMAIN fixture' : g # OutsiderFile => g \in DOMAIN fixture /\ fixture'[g] = fixture[g]
    BY <2>1 DEF Write
  <2> QED BY <1>1, <1>2, <2>1, <2>2, <2>3, Files
<1>7. CASE FixtureOutsider
  <2> DEFINE a == Anchor(job.run)
             honest == Signs(a, job.run, job.list, job.size, "honest")
             new == Signatures(Keys(job.run, TRUE, {0}), Message(a, job.list, job.size), V!SlotFor(a, job.size))
             own == new \cup {s \in honest : s.key.index # 0}
             r == Raw(job.list, job.size, own)
             c == "outsider"
  <2>1. /\ job.by = "fixture" /\ job.step = job.size + 4 /\ Sign(new)
        /\ fixture' = Write(fixture, AttackFile(c), r)
    BY <1>7, Zenon DEF FixtureOutsider
  <2>2. prepared'.run = prepared.run /\ prepared'.size = prepared.size
    <3>1. prepared \in Made /\ prepared' = [prepared EXCEPT !.done = TRUE]
      BY <1>0, <1>7 DEF CoreTypes, FixtureOutsider
    <3> QED BY <3>1 DEF Made
  <2>3. own = MixedSignatures(prepared.run, job.list, prepared.size)
    BY <1>1, <2>1, Zenon DEF MixedSignatures
  <2>4. own \subseteq signed'
    <3>1. honest \subseteq signed
      <4>1. job.step > job.size
        BY <1>1, <2>1
      <4> QED BY <2>1, <4>1 DEF HonestInv
    <3>2. signed' = signed \cup new
      BY <2>1, Zenon DEF Sign
    <3> HIDE DEF honest, new
    <3> QED BY <3>1, <3>2
  <2>5. own = FixtureSignatures(prepared.run, job.list, prepared.size, c)
    BY <2>3, Zenon DEF FixtureSignatures
  <2>6. c \in RawControl /\ FixtureVersion(prepared.size, c) = job.size
    BY <1>1, <2>1 DEF RawControl, FixtureVersion
  <2> HIDE DEF own
  <2>7. r.list = job.list
    BY DEF Raw, V!StatusListNew, V!RawRecord
  <2>8. r = Raw(job.list, FixtureVersion(prepared.size, c), own)
    BY <2>6
  <2> HIDE DEF r, c
  <2>9. fixture'[AttackFile(c)] = r
    BY <2>1 DEF Write
  <2>10. FixtureControlIn(fixture', prepared', signed', c)
    BY <1>1, <2>2, <2>4, <2>5, <2>7, <2>8, <2>9 DEF FixtureControlIn
  <2>11. \A g \in DOMAIN fixture' : g # AttackFile(c) => g \in DOMAIN fixture /\ fixture'[g] = fixture[g]
    BY <2>1 DEF Write
  <2>12. /\ \A d \in RawControl : AttackFile(c) = AttackFile(d) => d = c
         /\ AttackFile(c) # OutsiderFile
    BY Files
  <2> QED BY <1>2, <2>2, <2>10, <2>11, <2>12
<1>8. CASE Interrupted
  <2>1. CASE DOMAIN fixture' = {}
    BY <2>1 DEF FixtureControlsInv, FixtureControlIn
  <2>2. CASE DOMAIN fixture' # {}
    <3>1. prepared' = prepared /\ \A g \in DOMAIN fixture' : g \in DOMAIN fixture /\ fixture'[g] = fixture[g]
      BY <1>8, <2>2, WhatIsLeft DEF Left
    <3> QED BY <1>2, <3>1, Files
  <2> QED BY <2>1, <2>2
<1>9. CASE ~(FixtureStart \/ FixtureUpdate \/ FixtureControl \/ FixtureOutsiderAnchor \/ FixtureOutsider \/ Interrupted)
  <2>1. fixture' = fixture /\ prepared' = prepared
    BY <1>9 DEF Next, vars, dirs, history, ProverStart, ProveUpdate, WriteCanonical, ProveControl, SelfStart, SelfUpdate,
       SelfControl, MemoryStart, DemoUpdate, DemoControl, RawUpdate, RawControlSigned,
       InitState, Verify, VerifyRefused, NewMarkPath, Kill, TornWrite, Interrupted
  <2> QED BY <1>2, <2>1, Files
<1> QED BY <1>3, <1>4, <1>5, <1>6, <1>7, <1>8, <1>9

\* The controls in the artifact directory are well made.
LEMMA OutControlsStep ==
  ASSUME IInv, [Next]_vars, ControlsInv
  PROVE  OutControlsInv'
<1>0. CoreTypes /\ JobInv /\ FixtureInv /\ OutInv /\ FixtureControlsInv /\ OutControlsInv /\ HonestInv
  BY DEF IInv, ControlsInv
<1>1. job.step \in Nat /\ job.size \in Nat /\ job.list \in Seq(Entry)
  BY <1>0, JobTypes
<1>2. ASSUME NEW f, made'.run = made.run,
             \A g \in DOMAIN out' : g # f => g \in DOMAIN out /\ out'[g] = out[g],
             \A c \in Control : f = AttackFile(c) => OutControlIn(out', made'.run, signed', c)
      PROVE  OutControlsInv'
  <2>1. ASSUME NEW c \in Control PROVE OutControlIn(out', made'.run, signed', c)
    <3>1. CASE f = AttackFile(c)
      BY <1>2, <3>1
    <3>2. CASE f # AttackFile(c)
      <4>1. OutControlIn(out, made.run, signed, c)
        BY <1>0 DEF OutControlsInv
      <4> QED BY <1>2, <3>2, <4>1, OutControlStays
    <3> QED BY <3>1, <3>2
  <2> QED BY <2>1 DEF OutControlsInv
<1>3. ASSUME NEW c \in Control, NEW rec, out' = Write(out, AttackFile(c), rec), made'.run = made.run,
             WellMade(Anchor(made.run), c, rec), \A s \in rec.proof.claims : s \in signed' /\ s.key.run = made.run
      PROVE  OutControlsInv'
  <2>1. /\ out'[AttackFile(c)] = rec
        /\ \A g \in DOMAIN out' : g # AttackFile(c) => g \in DOMAIN out /\ out'[g] = out[g]
    BY <1>3 DEF Write
  <2>2. OutControlIn(out', made'.run, signed', c)
    BY <1>3, <2>1 DEF OutControlIn
  <2> QED BY <1>2, <1>3, <2>1, <2>2, Files
<1>4. CASE ProverStart \/ SelfStart
  <2>1. \A g \in DOMAIN out' : g = AnchorFile
    <3>1. out' = Clear(out) \/ \E a : out' = Write(Clear(out), AnchorFile, a)
      BY <1>4 DEF ProverStart, SelfStart
    <3> QED BY <3>1 DEF Write, Clear, Empty
  <2>2. \A c \in Control : AttackFile(c) \notin DOMAIN out'
    BY <2>1, Files
  <2> QED BY <2>2 DEF OutControlsInv, OutControlIn
<1>5. CASE ProveUpdate \/ SelfUpdate
  <2>1. PICK record : out' = Write(out, UpdateFile(job.step), record)
    BY <1>5 DEF ProveUpdate, SelfUpdate
  <2>2. made' = made
    BY <1>5 DEF ProveUpdate, SelfUpdate, history
  <2> DEFINE f == UpdateFile(job.step)
  <2>3. \A g \in DOMAIN out' : g # f => g \in DOMAIN out /\ out'[g] = out[g]
    BY <2>1 DEF Write
  <2>4. \A c \in Control : f # AttackFile(c)
    BY Files
  <2> HIDE DEF f
  <2> QED BY <1>2, <2>2, <2>3, <2>4
<1>6. ASSUME NEW done, made' = [made EXCEPT !.done = done] PROVE made'.run = made.run
  BY <1>0, <1>6 DEF CoreTypes, Made
<1>7. CASE WriteCanonical
  <2>1. PICK record : out' = Write(out, CanonicalFile, record)
    BY <1>7 DEF WriteCanonical
  <2>2. made'.run = made.run
    BY <1>6, <1>7 DEF WriteCanonical
  <2>3. \A g \in DOMAIN out' : g # CanonicalFile => g \in DOMAIN out /\ out'[g] = out[g]
    BY <2>1 DEF Write
  <2> QED BY <1>2, <2>2, <2>3, Files
<1>8. CASE ProveControl
  <2> DEFINE c == ProverControls[job.step - job.size]
             from == AttackFile(SourceOf(c))
             named == IF c = "outsider" THEN fixture[OutsiderFile] ELSE out[AnchorFile]
             r == fixture[from]
             rec == ControlRecord(out[AnchorFile], c, r, AggregationInputs(named, r))
  <2>1. job.by = "prover" /\ job.step > job.size /\ signed' = signed
    BY <1>8 DEF ProveControl
  <2>2. \/ out' = out /\ made' = made
        \/ /\ from \in DOMAIN fixture /\ (c = "outsider" => OutsiderFile \in DOMAIN fixture)
           /\ out' = Write(out, AttackFile(c), rec) /\ \E done : made' = [made EXCEPT !.done = done]
    BY <1>8, Zenon DEF ProveControl, Sourced
  <2>3. CASE out' = out /\ made' = made
    BY <1>2, <2>3, Files
  <2>4. CASE /\ from \in DOMAIN fixture /\ (c = "outsider" => OutsiderFile \in DOMAIN fixture)
             /\ out' = Write(out, AttackFile(c), rec) /\ \E done : made' = [made EXCEPT !.done = done]
    <3>1. c \in Control
      <4>1. job.step - job.size \in 1 .. 6
        BY <1>0, <1>1, <2>1 DEF JobInv, Making
      <4> QED BY <4>1 DEF ProverControls, Control
    <3> HIDE DEF c
    <3>2. SourceOf(c) \in RawControl
      BY <3>1 DEF SourceOf, Control, RawControl
    <3>3. /\ made.run = prepared.run /\ AnchorFile \in DOMAIN out /\ T >= 2
      BY <1>0, <2>1 DEF JobInv, Making
    <3>4. prepared.run \in Run /\ prepared.size \in Updates
      BY <1>0, <2>4 DEF FixtureInv
    <3>5. out[AnchorFile] = Anchor(prepared.run)
      BY <1>0, <3>3 DEF OutInv
    <3>6. /\ FixtureControlIn(fixture, prepared, signed, SourceOf(c))
          /\ c = "outsider" => named = OutsiderAnchor(prepared.run)
          /\ c # "outsider" => named = Anchor(prepared.run)
      BY <1>0, <2>4, <3>2, <3>5 DEF FixtureControlsInv
    <3>7. rec = ControlRecord(Anchor(prepared.run), c, r, AggregationInputs(named, r)) /\ r = fixture[AttackFile(SourceOf(c))]
      BY <3>5
    <3>8. from \in DOMAIN fixture /\ out' = Write(out, AttackFile(c), rec) /\ made'.run = made.run
      BY <1>6, <2>4
    <3> HIDE DEF named, r, rec
    <3>9. /\ WellMade(Anchor(prepared.run), c, rec)
          /\ \A s \in rec.proof.claims : s \in signed /\ s.key.run = prepared.run
      BY <3>1, <3>3, <3>4, <3>6, <3>7, <3>8, FixtureControlMade
    <3> QED BY <1>3, <2>1, <3>1, <3>3, <3>8, <3>9
  <2> QED BY <2>2, <2>3, <2>4
<1>9. CASE SelfControl
  <2> DEFINE c == SelfControls[job.step - job.size]
             new == IF c \in {"proofbody", "short"} THEN {} ELSE OwnSignatures(c)
  <2>1. /\ job.by = "self" /\ job.step > job.size /\ Sign(new)
        /\ out' = Write(out, AttackFile(c), OwnControl(c)) /\ \E done : made' = [made EXCEPT !.done = done]
    BY <1>9, Zenon DEF SelfControl
  <2>2. job.step - job.size \in 1 .. 6
    BY <1>0, <1>1, <2>1 DEF JobInv, Making
  <2>3. c \in Control /\ (c \in {"proofbody", "short"} => job.step > job.size + 1)
    BY <1>1, <2>2 DEF SelfControls, Control
  <2> HIDE DEF c
  <2>4. job.run \in Run /\ job.size \in Updates /\ made.run = job.run /\ T >= 2
    BY <1>0, <2>1 DEF JobInv, Idle, Making
  <2>5. /\ WellMade(Anchor(job.run), c, OwnControl(c))
        /\ OwnControl(c).proof.claims \subseteq OwnSignatures(c)
        /\ \A s \in OwnControl(c).proof.claims : s.key.run = job.run
    BY <1>1, <2>3, <2>4, OwnControlMade
  <2>6. OwnSignatures(c) \subseteq signed'
    <3>1. CASE c \in {"proofbody", "short"}
      <4>1. OwnSignatures(c) = Signs(Anchor(job.run), job.run, job.list, job.size, "honest")
        BY <3>1 DEF OwnSignatures, SourceOf
      <4>2. OwnSignatures(c) \subseteq signed
        BY <1>0, <2>1, <2>3, <3>1, <4>1 DEF HonestInv
      <4> QED BY <2>1, <4>2 DEF Sign
    <3>2. CASE c \notin {"proofbody", "short"}
      BY <2>1, <3>2 DEF Sign
    <3> QED BY <3>1, <3>2
  <2>7. made'.run = made.run
    BY <1>6, <2>1
  <2> QED BY <1>3, <2>1, <2>3, <2>4, <2>5, <2>6, <2>7
<1>10. CASE Interrupted
  <2>1. CASE DOMAIN out' = {}
    BY <2>1 DEF OutControlsInv, OutControlIn
  <2>2. CASE DOMAIN out' # {}
    <3>1. made' = made /\ \A g \in DOMAIN out' : g \in DOMAIN out /\ out'[g] = out[g]
      BY <1>10, <2>2, WhatIsLeft DEF Left
    <3> QED BY <1>2, <3>1, Files
  <2> QED BY <2>1, <2>2
<1>11. CASE ~(\/ ProverStart \/ SelfStart \/ ProveUpdate \/ SelfUpdate \/ WriteCanonical \/ ProveControl
              \/ SelfControl \/ Interrupted)
  <2>1. out' = out /\ made' = made
    BY <1>11 DEF Next, vars, dirs, history, FixtureStart, FixtureUpdate, FixtureControl, FixtureOutsiderAnchor,
       FixtureOutsider, MemoryStart, DemoUpdate, DemoControl, RawUpdate, RawControlSigned,
       InitState, Verify, VerifyRefused, NewMarkPath, Kill, TornWrite, Interrupted
  <2> QED BY <1>2, <2>1, Files
<1> QED BY <1>4, <1>5, <1>7, <1>8, <1>9, <1>10, <1>11

\* The controls are well made throughout.
LEMMA ControlsInductive == Spec => []ControlsInv
<1>1. Init => ControlsInv
  <2> SUFFICES ASSUME Init PROVE ControlsInv
    OBVIOUS
  <2>1. DOMAIN fixture = {} /\ DOMAIN out = {} /\ job.by = "none"
    BY NoJobFields DEF Init, Empty
  <2>2. FixtureControlsInv /\ OutControlsInv
    BY <2>1 DEF FixtureControlsInv, FixtureControlIn, OutControlsInv, OutControlIn
  <2>3. HonestInv /\ DemoInv
    BY <2>1 DEF HonestInv, DemoInv
  <2> QED BY <2>2, <2>3 DEF ControlsInv
<1>2. IInv /\ ControlsInv /\ [Next]_vars => ControlsInv'
  BY FixtureControlsStep, OutControlsStep, HonestStep, DemoStep DEF ControlsInv
<1> QED BY <1>1, <1>2, Inductive, PTL DEF Spec

\* A control that is well made of signatures that exist fails its own check only.
LEMMA FailsItsOwn ==
  ASSUME NEW a, NEW c \in Control, NEW r, WellMade(a, c, r), r.proof.claims \subseteq signed
  PROVE  Passed(a, r) = 1 .. 5 \ {OwnCheck[c]}
<1>1. Passed(a, r) = Shape(a, r) \cup (IF V!AggregateVerifies(r.proof) THEN {5} ELSE {})
  BY Zenon DEF Passed, Shape
<1>2. V!AggregateVerifies(r.proof) <=> c # "proofbody"
  BY DEF V!AggregateVerifies, WellMade
<1>3. Shape(a, r) = 1 .. 4 \ {OwnCheck[c]}
  BY DEF WellMade
<1>4. OwnCheck[c] \in 1 .. 5 /\ (OwnCheck[c] = 5 <=> c = "proofbody")
  BY DEF OwnCheck, Control
<1> QED BY <1>1, <1>2, <1>3, <1>4

\* Each of the six controls, once whole, is refused by the check it is there for and
\* passes every other, whichever program made it, from whichever fixture, and whatever
\* was killed since: a verifier that lost that check would accept it, and the gate would notice.
THEOREM ControlsAreIsolated == Spec => []ControlsIsolated
<1>1. ASSUME IInv, ControlsInv PROVE ControlsIsolated
  <2>0. CoreTypes /\ JobInv /\ OutInv /\ OutControlsInv /\ DemoInv
    BY <1>1 DEF IInv, ControlsInv
  <2>1. ASSUME NEW c \in Control, {AnchorFile, AttackFile(c)} \subseteq DOMAIN out
        PROVE  Passed(out[AnchorFile], out[AttackFile(c)]) = 1 .. 5 \ {OwnCheck[c]}
    <3>1. out[AnchorFile] = Anchor(made.run)
      BY <2>0, <2>1 DEF OutInv
    <3>2. /\ WellMade(Anchor(made.run), c, out[AttackFile(c)])
          /\ out[AttackFile(c)].proof.claims \subseteq signed
      BY <2>0, <2>1 DEF OutControlsInv, OutControlIn
    <3> QED BY <3>1, <3>2, FailsItsOwn
  <2>2. ASSUME job.by = "demo", NEW i \in DOMAIN DemoControls, i <= job.step - job.size
        PROVE  Passed(Anchor(job.run), OwnControl(DemoControls[i])) = 1 .. 5 \ {OwnCheck[DemoControls[i]]}
    <3> DEFINE c == DemoControls[i]
    <3>1. c \in Control /\ c # "short"
      BY DEF DemoControls, Control
    <3>2. OwnSignatures(c) \subseteq signed
      BY <2>0, <2>2 DEF DemoInv
    <3>3. job.run \in Run /\ job.size \in Updates /\ job.list \in Seq(Entry)
      BY <2>0, <2>2, JobTypes DEF JobInv, Idle
    <3> HIDE DEF c
    <3>4. WellMade(Anchor(job.run), c, OwnControl(c)) /\ OwnControl(c).proof.claims \subseteq signed
      BY <3>1, <3>2, <3>3, OwnControlMade
    <3>5. Passed(Anchor(job.run), OwnControl(c)) = 1 .. 5 \ {OwnCheck[c]}
      BY <3>1, <3>4, FailsItsOwn
    <3> QED BY <3>5 DEF c
  <2> QED BY <2>1, <2>2 DEF ControlsIsolated
<1> QED BY <1>1, Inductive, ControlsInductive, PTL

-----------------------------------------------------------------------------
(* Torn files, and directories that a killed run has begun to clear        *)

\* At most one artifact is torn, and only of a run that did not come to its end; a
\* directory that no other run has begun to clear has every update before it has the
\* canonical record.
TornInv ==
  /\ fixtureTorn \subseteq FixtureFiles /\ outTorn \subseteq OutFiles /\ cut \subseteq {"fixture", "out"}
  /\ \A f, g \in outTorn : f = g
  /\ outTorn # {} => job.by \notin Making /\ ~made.done
  /\ \A c \in Control : AttackFile(c) \in outTorn => made.by \in {"prover", "self"}
  /\ fixtureTorn # {} => job.by # "fixture" /\ ~prepared.done
  /\ job.by \in {"prover", "honest-only"} /\ "fixture" \in cut => "out" \in cut
  /\ job.by = "self" => "out" \notin cut
  /\ CanonicalFile \in DOMAIN out /\ "out" \notin cut => HasUpdates(out, made.size)

\* The steps that neither tear nor remove a file.
LEMMA TornFrame ==
  ASSUME TornInv, UNCHANGED <<fixtureTorn, outTorn, cut>>,
         job'.by \in {job.by, "none"} \cup InMemory, made'.by = made.by,
         made' = made \/ job.by \in Making, prepared' = prepared \/ job.by = "fixture",
         CanonicalFile \in DOMAIN out' /\ "out" \notin cut => HasUpdates(out', made'.size)
  PROVE  TornInv'
<1>1. /\ job'.by \in Making => job.by \in Making
      /\ job'.by = "fixture" => job.by = "fixture"
      /\ job'.by \in {"prover", "honest-only"} => job.by \in {"prover", "honest-only"}
      /\ job'.by = "self" => job.by = "self"
  BY DEF Making, InMemory
<1>2. HasUpdates(out, made.size)' <=> HasUpdates(out', made'.size)
  BY DEF HasUpdates
<1> QED BY <1>1, <1>2 DEF TornInv

\* The file that a program writes next has its place in the directory.
LEMMA NextFileType ==
  ASSUME IInv
  PROVE  /\ job.by = "fixture" => NextFile \in FixtureFiles
         /\ job.by \in Making => NextFile \in OutFiles
         /\ job.by \in Making => \A c \in Control : NextFile = AttackFile(c) => job.by \in {"prover", "self"}
<1>0. CoreTypes /\ JobInv
  BY DEF IInv
<1>1. job.step \in Nat /\ job.size \in Nat
  BY <1>0, JobTypes
<1>2. CASE job.by # "none" /\ job.step < job.size
  <2>1. NextFile = UpdateFile(job.step)
    <3>1. ~(job.step >= job.size) /\ job.step # job.size
      BY <1>1, <1>2
    <3> QED BY <1>2, <3>1, Zenon DEF NextFile
  <2>2. job.step \in Version
    BY <1>0, <1>1, <1>2, Versions DEF JobInv, Idle
  <2> QED BY <2>1, <2>2, Files DEF FixtureFiles, OutFiles
<1>3. CASE job.by = "fixture" /\ ~(job.step < job.size)
  <2>1. job.step >= job.size /\ job.step - job.size + 1 \in 1 .. 5
    BY <1>0, <1>1, <1>3 DEF JobInv
  <2>2. NextFile = FixtureTail[job.step - job.size + 1]
    BY <1>3, <2>1 DEF NextFile
  <2>3. \A i \in 1 .. 5 : FixtureTail[i] \in FixtureFiles
    BY DEF FixtureTail, FixtureFiles, RawControl
  <2> QED BY <1>3, <2>1, <2>2, <2>3 DEF Making
<1>4. CASE job.by \in Making /\ job.step = job.size
  <2>1. NextFile = CanonicalFile
    BY <1>1, <1>4 DEF NextFile, Making
  <2> QED BY <1>4, <2>1, Files DEF OutFiles, Making
<1>5. CASE job.by \in Making /\ job.step > job.size
  <2>1. job.step - job.size \in 1 .. 6 /\ job.by \in {"prover", "self"}
    BY <1>0, <1>1, <1>5 DEF JobInv, Making
  <2>2. NextFile = AttackFile(ControlsOf(job.by)[job.step - job.size])
    BY <1>1, <1>5 DEF NextFile, Making
  <2>3. \A i \in 1 .. 6 : ControlsOf(job.by)[i] \in Control
    BY DEF ControlsOf, SelfControls, ProverControls, Control
  <2>4. NextFile \in OutFiles
    BY <2>1, <2>2, <2>3 DEF OutFiles
  <2> QED BY <1>5, <2>1, <2>4 DEF Making
<1> QED BY <1>1, <1>2, <1>3, <1>4, <1>5 DEF Making

\* A program that writes the artifact directory keeps its updates together.
LEMMA UpdatesTogether ==
  ASSUME IInv, TornInv, ProveUpdate \/ SelfUpdate \/ WriteCanonical \/ ProveControl \/ SelfControl
  PROVE  CanonicalFile \in DOMAIN out' /\ "out" \notin cut => HasUpdates(out', made'.size)
<1>0. CoreTypes /\ JobInv /\ OutInv /\ ProgressInv /\ (CanonicalFile \in DOMAIN out /\ "out" \notin cut => HasUpdates(out, made.size))
  BY DEF IInv, TornInv
<1>1. job.by \in Making /\ made \in Made /\ job.step \in Nat /\ job.size \in Nat
  BY <1>0, JobTypes DEF ProveUpdate, SelfUpdate, WriteCanonical, ProveControl, SelfControl, Making, CoreTypes
<1>2. made.size = job.size
  BY <1>0, <1>1 DEF JobInv
<1>3. ASSUME NEW done, made' = [made EXCEPT !.done = done] PROVE made'.size = made.size
  BY <1>1, <1>3 DEF Made
<1>4. CASE ProveUpdate \/ SelfUpdate
  <2>1. job.step < job.size /\ \E record : out' = Write(out, UpdateFile(job.step), record)
    BY <1>4 DEF ProveUpdate, SelfUpdate
  <2>2. DOMAIN out' = DOMAIN out \cup {UpdateFile(job.step)}
    BY <2>1 DEF Write
  <2>3. CanonicalFile \notin DOMAIN out
    BY <1>0, <1>1, <2>1 DEF ProgressInv
  <2> QED BY <2>2, <2>3, Files
<1>5. CASE WriteCanonical
  <2>1. /\ job.step = job.size /\ \E record : out' = Write(out, CanonicalFile, record)
        /\ made' = made \/ made' = [made EXCEPT !.done = TRUE]
    BY <1>5 DEF WriteCanonical
  <2>2. DOMAIN out' = DOMAIN out \cup {CanonicalFile}
    BY <2>1 DEF Write
  <2>3. made'.size = job.size
    BY <1>2, <1>3, <2>1
  <2>4. ASSUME NEW v \in Version PROVE UpdateFile(v) \in DOMAIN out <=> v < job.size
    <3>1. v < job.size => UpdateFile(v) \in DOMAIN out
      BY <1>0, <1>1, <2>1 DEF ProgressInv
    <3>2. UpdateFile(v) \in DOMAIN out => v < job.size
      BY <1>0, <1>2 DEF OutInv
    <3> QED BY <3>1, <3>2
  <2> QED BY <2>2, <2>3, <2>4, Files DEF HasUpdates
<1>6. CASE ProveControl \/ SelfControl
  <2>1. \/ out' = out /\ made' = made
        \/ \E c, record, done : out' = Write(out, AttackFile(c), record) /\ made' = [made EXCEPT !.done = done]
    BY <1>6 DEF ProveControl, SelfControl
  <2>2. CASE out' = out /\ made' = made
    BY <1>0, <2>2
  <2>3. CASE \E c, record, done : out' = Write(out, AttackFile(c), record) /\ made' = [made EXCEPT !.done = done]
    <3>1. PICK c, record, done : out' = Write(out, AttackFile(c), record) /\ made' = [made EXCEPT !.done = done]
      BY <2>3
    <3>2. DOMAIN out' = DOMAIN out \cup {AttackFile(c)}
      BY <3>1 DEF Write
    <3>3. made'.size = made.size
      BY <1>3, <3>1
    <3> QED BY <1>0, <3>2, <3>3, Files DEF HasUpdates
  <2> QED BY <2>1, <2>2, <2>3
<1> QED BY <1>4, <1>5, <1>6

\* A program starts on a directory that it has cleared.
LEMMA TornStarts ==
  ASSUME IInv, TornInv, FixtureStart \/ ProverStart \/ SelfStart
  PROVE  TornInv'
<1>0. CoreTypes /\ JobInv /\ runs \in Nat
  BY JobTypes DEF IInv
<1>1. CASE FixtureStart
  <2>1. PICK n \in Updates, e \in ListEntries :
          /\ runs < MaxRuns /\ runs' = runs + 1
          /\ job' = [NoJob EXCEPT !.by = "fixture", !.run = runs', !.size = n, !.entries = e]
    BY <1>1 DEF FixtureStart
  <2>2. fixtureTorn' = {} /\ outTorn' = outTorn /\ cut' = cut \ {"fixture"} /\ out' = out /\ made' = made
    BY <1>1 DEF FixtureStart
  <2>3. runs' \in Run \cup {0} /\ "fixture" \in Program
    BY <1>0, <2>1, Params DEF Program, Run
  <2>4. job'.by = "fixture"
    BY <2>1, <2>3, FixtureStartFields
  <2> QED BY <2>2, <2>4 DEF TornInv, Making, HasUpdates
<1>2. CASE ProverStart \/ SelfStart
  <2>1. /\ outTorn' = {} /\ fixtureTorn' = fixtureTorn /\ prepared' = prepared
        /\ out' = Clear(out) \/ \E a : out' = Write(Clear(out), AnchorFile, a)
    BY <1>2 DEF ProverStart, SelfStart
  <2>2. CanonicalFile \notin DOMAIN out'
    BY <2>1, Files DEF Clear, Empty, Write
  <2>3. /\ cut' \subseteq cut \cup {"out"}
        /\ ProverStart /\ "fixture" \in cut' => "out" \in cut'
        /\ SelfStart => "out" \notin cut'
    BY <1>2 DEF ProverStart, SelfStart
  <2>4. /\ job'.by # "fixture" /\ (SelfStart => job'.by \notin {"prover", "honest-only"})
        /\ ~SelfStart => job'.by # "self"
    <3>1. CASE ProverStart
      <4>1. PICK n \in Updates, by \in {"prover", "honest-only"}, run \in {prepared.run, 0} :
              job' = [NoJob EXCEPT !.by = by, !.run = run, !.size = n] \/ job' = NoJob
        BY <3>1 DEF ProverStart
      <4>2. run \in Run \cup {0} /\ by \in Program
        BY <1>0 DEF CoreTypes, Made, Program
      <4>3. job'.by \in {by, "none"}
        BY <4>1, <4>2, StartFields, NoJobFields
      <4>4. ~SelfStart \/ job'.by \in {"none", "self"}
        <5>1. \E p \in {"prover", "honest-only"} : \E r, k, d : made' = [by |-> p, run |-> r, size |-> k, done |-> d]
          BY <3>1, Zenon DEF ProverStart
        <5>2. SelfStart => \E r, k, d : made' = [by |-> "self", run |-> r, size |-> k, done |-> d]
          BY Zenon DEF SelfStart
        <5>3. made'.by # "self"
          BY <5>1
        <5>4. SelfStart => made'.by = "self"
          BY <5>2
        <5> QED BY <5>3, <5>4
      <4> QED BY <4>3, <4>4
    <3>2. CASE SelfStart
      <4>1. PICK n \in Updates :
              /\ runs < MaxRuns /\ runs' = runs + 1
              /\ job' = [NoJob EXCEPT !.by = "self", !.run = runs', !.size = n] \/ job' = NoJob
        BY <3>2 DEF SelfStart
      <4>2. runs' \in Run \cup {0} /\ "self" \in Program
        BY <1>0, <4>1, Params DEF Program, Run
      <4>3. job'.by \in {"self", "none"}
        BY <4>1, <4>2, StartFields, NoJobFields
      <4> QED BY <3>2, <4>3
    <3> QED BY <1>2, <3>1, <3>2
  <2> QED BY <1>2, <2>1, <2>2, <2>3, <2>4 DEF TornInv
<1> QED BY <1>1, <1>2

\* A program is killed inside a write, or before its first one.
LEMMA TornKills ==
  ASSUME IInv, TornInv, TornWrite \/ Interrupted
  PROVE  TornInv'
<1>0. CoreTypes /\ JobInv
  BY DEF IInv
<1>1. CASE TornWrite
  <2>1. job' = NoJob /\ UNCHANGED <<out, made, prepared, cut>>
    BY <1>1 DEF TornWrite, Ends, history
  <2>2. job'.by = "none"
    BY <2>1, NoJobFields
  <2>3. CASE job.by = "fixture"
    <3>1. fixtureTorn' = {NextFile} /\ outTorn' = outTorn
      BY <1>1, <2>3 DEF TornWrite
    <3>2. ~prepared.done /\ NextFile \in FixtureFiles
      BY <1>0, <2>3, NextFileType DEF JobInv
    <3> QED BY <2>1, <2>2, <3>1, <3>2 DEF TornInv, Making, HasUpdates
  <2>4. CASE job.by # "fixture"
    <3>1. job.by \in Making /\ outTorn' = {NextFile} /\ fixtureTorn' = fixtureTorn
      BY <1>1, <2>4 DEF TornWrite, Making
    <3>2. ~made.done /\ made.by = job.by /\ NextFile \in OutFiles
          /\ \A c \in Control : NextFile = AttackFile(c) => made.by \in {"prover", "self"}
      BY <1>0, <3>1, NextFileType DEF JobInv
    <3> QED BY <2>1, <2>2, <3>1, <3>2 DEF TornInv, Making, HasUpdates
  <2> QED BY <2>3, <2>4
<1>2. CASE Interrupted
  <2>1. job' = job /\ job.by = "none" /\ Nothing.done = FALSE
    BY <1>2, WhatIsLeft DEF Idle, Nothing
  <2>2. CASE TornFixtureAnchor
    <3>1. fixtureTorn' = {AnchorFile} /\ prepared' = Nothing /\ cut' = cut \ {"fixture"} /\ UNCHANGED <<out, outTorn, made>>
      BY <2>2 DEF TornFixtureAnchor
    <3>2. AnchorFile \in FixtureFiles
      BY DEF FixtureFiles
    <3> QED BY <2>1, <3>1, <3>2 DEF TornInv, Making, HasUpdates
  <2>3. CASE TornOutAnchor
    <3>1. outTorn' = {AnchorFile} /\ made' = Nothing /\ cut' = cut \ {"out"} /\ UNCHANGED <<fixtureTorn, prepared>>
          /\ DOMAIN out' = {}
      BY <2>3 DEF TornOutAnchor, Clear, Empty
    <3>2. AnchorFile \in OutFiles /\ \A c \in Control : AttackFile(c) # AnchorFile
      BY Files DEF OutFiles
    <3> QED BY <2>1, <3>1, <3>2 DEF TornInv, Making
  <2>4. CASE PartlyClearedFixture
    <3>1. fixtureTorn' \subseteq fixtureTorn /\ cut' = cut \cup {"fixture"} /\ UNCHANGED <<out, outTorn, made, prepared>>
      BY <2>4 DEF PartlyClearedFixture
    <3> QED BY <2>1, <3>1 DEF TornInv, Making, HasUpdates
  <2>5. CASE PartlyClearedOut
    <3>1. outTorn' \subseteq outTorn /\ cut' = cut \cup {"out"} /\ UNCHANGED <<fixtureTorn, made, prepared>>
      BY <2>5 DEF PartlyClearedOut
    <3> QED BY <2>1, <3>1 DEF TornInv, Making
  <2> QED BY <1>2, <2>2, <2>3, <2>4, <2>5 DEF Interrupted
<1> QED BY <1>1, <1>2

\* Every other step writes a whole file or none.
LEMMA TornStep ==
  ASSUME IInv, TornInv, [Next]_vars
  PROVE  TornInv'
<1>0. CoreTypes /\ JobInv /\ (CanonicalFile \in DOMAIN out /\ "out" \notin cut => HasUpdates(out, made.size))
  BY DEF IInv, TornInv
<1>1. made \in Made /\ prepared \in Made
  BY <1>0 DEF CoreTypes
<1>2. ASSUME NEW done, made' = [made EXCEPT !.done = done] PROVE made'.by = made.by
  BY <1>1, <1>2 DEF Made
<1>3. CASE FixtureStart \/ ProverStart \/ SelfStart
  BY <1>3, TornStarts
<1>4. CASE TornWrite \/ Interrupted
  BY <1>4, TornKills
<1>5. CASE MemoryStart
  <2>1. PICK n \in Updates, by \in InMemory :
          /\ runs < MaxRuns /\ runs' = runs + 1
          /\ job' = [NoJob EXCEPT !.by = by, !.run = runs', !.size = n]
    BY <1>5 DEF MemoryStart
  <2>2. runs' \in Run \cup {0} /\ by \in Program
    <3>1. runs' \in Run
      BY <2>1, Params DEF IInv, CoreTypes, Run
    <3> QED BY <2>1, <3>1 DEF Program, InMemory
  <2>3. job'.by \in InMemory
    BY <2>1, <2>2, StartFields
  <2>4. UNCHANGED <<out, fixtureTorn, outTorn, cut, made, prepared>>
    BY <1>5 DEF MemoryStart, dirs, torn, history
  <2> QED BY <1>0, <2>3, <2>4, TornFrame
<1>6. CASE ~(\/ FixtureStart \/ ProverStart \/ SelfStart \/ MemoryStart \/ TornWrite \/ Interrupted)
  <2>1. job'.by \in {job.by, "none"}
    <3>1. CASE FixtureUpdate
      <4>1. job.run \in Run /\ job.entries \in Nat /\ job.list \in Seq(Entry) /\ job.step \in Nat
        BY <1>0, <3>1, JobTypes DEF FixtureUpdate, JobInv, Idle
      <4>2. AdvanceList(job.list, job.run, job.step, job.entries) \in Seq(Entry)
        BY <4>1, AdvanceListType
      <4>3. job' = [job EXCEPT !.step = @ + 1, !.list = AdvanceList(job.list, job.run, job.step, job.entries)]
        BY <3>1 DEF FixtureUpdate
      <4> QED BY <1>0, <4>2, <4>3, UpdateFields
    <3>2. CASE SelfUpdate \/ DemoUpdate \/ RawUpdate
      <4>1. job.by # "none" /\ job' = [job EXCEPT !.step = @ + 1, !.list = NextList]
        BY <3>2 DEF SelfUpdate, DemoUpdate, RawUpdate
      <4>2. NextList \in Seq(Entry)
        BY <1>0, <4>1, NextListType DEF JobInv, Idle
      <4> QED BY <1>0, <4>1, <4>2, UpdateFields
    <3>3. CASE ~FixtureUpdate /\ ~(SelfUpdate \/ DemoUpdate \/ RawUpdate)
      <4>1. job' = job \/ Steps \/ Ends
        BY <1>6, <3>3 DEF Next, vars, FixtureControl, FixtureOutsiderAnchor, FixtureOutsider, ProveUpdate, WriteCanonical,
           ProveControl, SelfControl, DemoControl, RawControlSigned, InitState, Verify, VerifyRefused, NewMarkPath, Kill, Interrupted
      <4> QED BY <1>0, <4>1, StepFields, NoJobFields DEF Ends
    <3> QED BY <3>1, <3>2, <3>3
  <2>2. UNCHANGED <<fixtureTorn, outTorn, cut>>
    BY <1>6 DEF Next, vars, dirs, torn, history, FixtureUpdate, FixtureControl, FixtureOutsiderAnchor, FixtureOutsider,
       ProveUpdate, WriteCanonical, ProveControl, SelfUpdate, SelfControl, DemoUpdate, DemoControl, RawUpdate,
       RawControlSigned, InitState, Verify, VerifyRefused, NewMarkPath, Kill, Interrupted
  <2>3. CASE ProveUpdate \/ SelfUpdate \/ WriteCanonical \/ ProveControl \/ SelfControl
    <3>1. job.by \in Making /\ prepared' = prepared
      BY <2>3 DEF ProveUpdate, SelfUpdate, WriteCanonical, ProveControl, SelfControl, history, Making
    <3>2. made' = made \/ \E done : made' = [made EXCEPT !.done = done]
      BY <2>3 DEF ProveUpdate, SelfUpdate, WriteCanonical, ProveControl, SelfControl, history
    <3>3. made'.by = made.by
      BY <1>2, <3>2
    <3>4. CanonicalFile \in DOMAIN out' /\ "out" \notin cut => HasUpdates(out', made'.size)
      BY <2>3, UpdatesTogether
    <3> QED BY <2>1, <2>2, <3>1, <3>3, <3>4, TornFrame
  <2>4. CASE ~(ProveUpdate \/ SelfUpdate \/ WriteCanonical \/ ProveControl \/ SelfControl)
    <3>1. out' = out /\ made' = made /\ (prepared' = prepared \/ job.by = "fixture")
      BY <1>6, <2>4 DEF Next, vars, dirs, history, FixtureUpdate, FixtureControl, FixtureOutsiderAnchor, FixtureOutsider,
         DemoUpdate, DemoControl, RawUpdate, RawControlSigned, InitState, Verify, VerifyRefused, NewMarkPath, Kill, Interrupted
    <3> QED BY <1>0, <2>1, <2>2, <3>1, TornFrame
  <2> QED BY <2>3, <2>4
<1> QED BY <1>3, <1>4, <1>5, <1>6

\* So it holds throughout.
LEMMA TornInductive == Spec => []TornInv
<1>1. Init => TornInv
  <2> SUFFICES ASSUME Init PROVE TornInv
    OBVIOUS
  <2>1. DOMAIN out = {} /\ fixtureTorn = {} /\ outTorn = {} /\ cut = {}
    BY DEF Init, Empty
  <2> QED BY <2>1 DEF TornInv
<1>2. IInv /\ TornInv /\ [Next]_vars => TornInv'
  BY TornStep
<1> QED BY <1>1, <1>2, Inductive, PTL DEF Spec

\* The verifier's lock file is there or not; only the verifier makes it.
LEMMA LockType == Spec => [](locked \in BOOLEAN)
<1>1. Init => locked \in BOOLEAN
  BY DEF Init
<1>2. locked \in BOOLEAN /\ [Next]_vars => (locked \in BOOLEAN)'
  <2> SUFFICES ASSUME locked \in BOOLEAN, [Next]_vars PROVE locked' \in BOOLEAN
    OBVIOUS
  <2>1. CASE InitState
    BY <2>1, Zenon DEF InitState
  <2>2. CASE VerifyRefused
    BY <2>2, Zenon DEF VerifyRefused
  <2>3. CASE ~InitState /\ ~VerifyRefused
    <3>1. locked' = locked
      BY <2>3 DEF Next, vars, FixtureStart, FixtureUpdate, FixtureControl, FixtureOutsiderAnchor, FixtureOutsider,
         ProverStart, ProveUpdate, WriteCanonical, ProveControl, SelfStart, SelfUpdate, SelfControl,
         MemoryStart, DemoUpdate, DemoControl, RawUpdate, RawControlSigned, Verify, NewMarkPath,
         Kill, TornWrite, TornFixtureAnchor, TornOutAnchor, PartlyClearedFixture, PartlyClearedOut
    <3> QED BY <3>1
  <2> QED BY <2>1, <2>2, <2>3
<1> QED BY <1>1, <1>2, PTL DEF Spec

\* The directories, marks, signatures and histories of the command line tools keep
\* their types.
THEOREM TypeCorrect == Spec => []TypeOK
<1>1. IInv /\ TornInv /\ locked \in BOOLEAN => TypeOK
  BY DEF IInv, TornInv, CoreTypes, TypeOK
<1> QED BY <1>1, Inductive, TornInductive, LockType, PTL

\* A gate that passes is evidence, whatever was killed inside or between two writes, or
\* left over before: verifier accepts only what a run of prover has written up to its
\* last control, which may be torn, and check_prover_output only all the updates of a
\* run over the fixture it is given.
THEOREM GatesAreEvidence == Spec => []PassMeansComplete
<1>1. ASSUME IInv, TornInv PROVE PassMeansComplete
  <2>0. OutInv /\ FixtureInv
    BY <1>1 DEF IInv
  <2>1. ASSUME NEW m \in mark, Passes(m)
        PROVE  /\ made.by \in {"prover", "self"}
               /\ \A c \in Control \ {LastControl(made.by)} : AttackFile(c) \in DOMAIN out
               /\ made.done \/ AttackFile(LastControl(made.by)) \in outTorn
               /\ "out" \notin cut => HasUpdates(out, made.size)
    <3>1. CanonicalFile \in DOMAIN out /\ \A c \in Control : AttackFile(c) \in DOMAIN out \cup outTorn
      BY <2>1 DEF Passes, VerifierPasses, Missing
    <3>2. LastControl(made.by) \in Control
      BY DEF LastControl, Control
    <3>3. made.by \in {"prover", "self"}
      BY <1>1, <2>0, <3>1, <3>2 DEF OutInv, TornInv
    <3>4. made.done \/ AttackFile(LastControl(made.by)) \in outTorn
      BY <2>0, <3>1, <3>2 DEF OutInv
    <3>5. ASSUME NEW c \in Control \ {LastControl(made.by)} PROVE AttackFile(c) \in DOMAIN out
      <4>1. outTorn = {} \/ AttackFile(LastControl(made.by)) \in outTorn
        BY <1>1, <3>4 DEF TornInv
      <4>2. AttackFile(c) \notin outTorn
        BY <1>1, <3>5, <4>1, Files DEF TornInv
      <4> QED BY <3>1, <3>5, <4>2
    <3>6. "out" \notin cut => HasUpdates(out, made.size)
      BY <1>1, <3>1 DEF TornInv
    <3> QED BY <3>3, <3>4, <3>5, <3>6
  <2>2. ASSUME NEW n \in Updates, OutputPasses(out, n, TRUE)
        PROVE  made.run = prepared.run /\ made.size = n
    <3>1. /\ {AnchorFile, CanonicalFile} \subseteq DOMAIN out
          /\ AnchorFile \in DOMAIN fixture /\ out[AnchorFile] = fixture[AnchorFile]
          /\ \A v \in 0 .. n - 1 : UpdateAsExpected(out, v, TRUE)
          /\ out[CanonicalFile] = out[UpdateFile(n - 1)]
      BY <2>2 DEF OutputPasses
    <3>2. /\ made.run \in Run /\ made.size \in Updates /\ out[AnchorFile] = Anchor(made.run)
      BY <2>0, <3>1 DEF OutInv
    <3>3. made.run = prepared.run
      BY <2>0, <3>1, <3>2, Anchors DEF FixtureInv
    <3>4. n \in Nat /\ n - 1 \in Version /\ n - 1 \in 0 .. n - 1 /\ made.size \in Nat
      <4>1. n \in Nat /\ n - 1 \in Version /\ n - 1 \in Nat /\ made.size \in Nat
        BY <3>2, Params, Versions
      <4> QED BY <4>1
    <3>5. UpdateFile(n - 1) \in DOMAIN out /\ out[UpdateFile(n - 1)].version = n - 1
      BY <3>1, <3>4, Zenon DEF UpdateAsExpected
    <3>6. n - 1 < made.size
      BY <2>0, <3>4, <3>5 DEF OutInv
    <3>7. made.size - 1 <= n - 1
      BY <2>0, <3>1, <3>5 DEF OutInv
    <3> QED BY <3>3, <3>4, <3>6, <3>7
  <2> QED BY <2>1, <2>2 DEF PassMeansComplete
<1> QED BY <1>1, Inductive, TornInductive, PTL

-----------------------------------------------------------------------------
(* Complete runs.  An update is signed by the keys of a quorum, any T      *)
(* members of the run's committee.                                         *)

IsQuorum(I) == I \subseteq Member /\ Cardinality(I) = T
QuorumSignatures(run, I, list, v) ==
  LET a == Anchor(run) IN Signatures(Keys(run, FALSE, I), Message(a, list, v), V!SlotFor(a, v))

\* The record that prover makes of them.
ProvedUpdate(run, I, list, v) ==
  LET a == Anchor(run)
  IN Snark(list, v, V!MakeAggregate(Keys(run, FALSE, I), Message(a, list, v), V!SlotFor(a, v)))

\* An update in the fixture directory, if it is there: what the quorum of the version
\* signed in the run that prepared it.
FixtureUpdateIn(dir, run, sigs, v) ==
  UpdateFile(v) \in DOMAIN dir =>
    LET r == dir[UpdateFile(v)]
        own == QuorumSignatures(run, Quorum(v), r.list, v)
    IN r = Raw(r.list, v, own) /\ own \subseteq sigs

\* How far committee_fixture has got, and what is there when it has come to its end.
FixtureDone(dir, n) ==
  /\ HasUpdates(dir, n)
  /\ {AttackFile("honest"), AttackFile("slot"), AttackFile("outsider")} \subseteq DOMAIN dir

FixtureProgress ==
  /\ job.by = "fixture" =>
       /\ \A v \in Version : UpdateFile(v) \in DOMAIN fixture <=> v < job.step /\ v < job.size
       /\ job.step > job.size => AttackFile("honest") \in DOMAIN fixture
       /\ job.step > job.size + 1 => AttackFile("slot") \in DOMAIN fixture
  /\ prepared.done /\ "fixture" \notin cut => FixtureDone(fixture, prepared.size)

FixtureCompleteInv ==
  (\A v \in Version : FixtureUpdateIn(fixture, prepared.run, signed, v)) /\ FixtureProgress

\* A fixture directory that no other run has begun to clear has its anchor, and its
\* updates have no gap.
FixtureWhole ==
  "fixture" \notin cut =>
    /\ DOMAIN fixture # {} => AnchorFile \in DOMAIN fixture
    /\ \A v, w \in Version : w < v /\ UpdateFile(v) \in FixtureNames => UpdateFile(w) \in FixtureNames

\* The quorum of an update in the artifact directory.
QuorumOf(by, v) == IF by = "self" THEN Rotating(v) ELSE Quorum(v)

\* An update in the artifact directory, if it is there.
OutUpdateIn(dir, run, by, sigs, v) ==
  UpdateFile(v) \in DOMAIN dir =>
    LET u == dir[UpdateFile(v)]
    IN /\ u = ProvedUpdate(run, QuorumOf(by, v), u.list, v)
       /\ QuorumSignatures(run, QuorumOf(by, v), u.list, v) \subseteq sigs

\* As long as the fixture is the one that prover has read, the lists are the fixture's.
SameListIn(dir, raw, v) ==
  UpdateFile(v) \in DOMAIN dir =>
    UpdateFile(v) \in DOMAIN raw /\ dir[UpdateFile(v)].list = raw[UpdateFile(v)].list

\* The lists of prover by itself grow by one.
GrowsIn(dir, v) ==
  UpdateFile(v) \in DOMAIN dir =>
    /\ dir[UpdateFile(v)].list \in Seq(Entry) /\ Len(dir[UpdateFile(v)].list) = v + 1
    /\ v > 0 => /\ UpdateFile(v - 1) \in DOMAIN dir
                 /\ SubSeq(dir[UpdateFile(v)].list, 1, v) = dir[UpdateFile(v - 1)].list

OutUpdatesInv ==
  /\ "out" \notin cut => \A v \in Version : OutUpdateIn(out, made.run, made.by, signed, v)
  /\ cut = {} /\ made.by # "self" /\ made.run = prepared.run => \A v \in Version : SameListIn(out, fixture, v)
  /\ "out" \notin cut /\ made.by = "self" => \A v \in Version : GrowsIn(out, v)
  /\ job.by = "self" /\ job.step <= job.size =>
       /\ Len(job.list) = job.step
       /\ job.step > 0 => job.list = out[UpdateFile(job.step - 1)].list

\* How far the program that makes the artifact directory has got.
OutProgress ==
  /\ job.by \in Making /\ job.step > job.size =>
       /\ CanonicalFile \in DOMAIN out
       /\ \A i \in 1 .. 6 : i < job.step - job.size => AttackFile(ControlsOf(job.by)[i]) \in DOMAIN out
  /\ made.done /\ "out" \notin cut =>
       /\ CanonicalFile \in DOMAIN out
       /\ made.by # "honest-only" => \A c \in Control : AttackFile(c) \in DOMAIN out
  /\ "out" \notin cut =>
       /\ DOMAIN out # {} => AnchorFile \in DOMAIN out
       /\ CanonicalFile \in DOMAIN out => out[CanonicalFile] = out[UpdateFile(made.size - 1)]

\* The update that the demo checks is signed.
DemoUpdateInv ==
  job.by = "demo" /\ job.step \in 1 .. job.size => UpdateSignatures(job.list, job.step - 1) \subseteq signed

CompleteInv == FixtureCompleteInv /\ FixtureWhole /\ OutUpdatesInv /\ OutProgress /\ DemoUpdateInv

-----------------------------------------------------------------------------
(* Quorums                                                                 *)

\* The index whose signature comes at a place.
At(I, i) == CHOOSE b \in I : V!Rank(I, b) = i

\* A quorum is finite, and its ranks are the places 1 to T, each taken once.
LEMMA QuorumRanks ==
  ASSUME NEW I, IsQuorum(I)
  PROVE  /\ IsFiniteSet(I) /\ I \subseteq Nat
         /\ \A b \in I : V!Rank(I, b) \in 1 .. T
         /\ \A b, c \in I : V!Rank(I, b) = V!Rank(I, c) => b = c
         /\ \A i \in 1 .. T : At(I, i) \in I /\ V!Rank(I, At(I, i)) = i
         /\ \A b \in I : At(I, V!Rank(I, b)) = b
<1>1. I \subseteq Nat /\ I \subseteq 0 .. Size - 1 /\ Cardinality(I) = T
  BY Params DEF IsQuorum, Member
<1>2. IsFiniteSet(I)
  <2>1. IsFiniteSet(0 .. Size - 1)
    BY Params, FS_Interval
  <2> QED BY <1>1, <2>1, FS_Subset
<1> DEFINE B(b) == {j \in I : j <= b}
<1>3. ASSUME NEW b PROVE V!Rank(I, b) = Cardinality(B(b)) /\ IsFiniteSet(B(b)) /\ B(b) \in SUBSET I
  <2>1. V!Rank(I, b) = V!Cardinality(B(b))
    BY DEF V!Rank
  <2>2. B(b) \in SUBSET I
    OBVIOUS
  <2> HIDE DEF B
  <2> QED BY <1>2, <2>1, <2>2, SameCardinality, FS_Subset
<1>4. ASSUME NEW b \in I PROVE V!Rank(I, b) \in 1 .. T
  <2>1. b \in B(b)
    BY <1>1
  <2>2. Cardinality(B(b)) \in Nat /\ Cardinality(B(b)) # 0 /\ Cardinality(B(b)) <= Cardinality(I)
    <3> HIDE DEF B
    <3>1. Cardinality(B(b)) \in Nat
      BY <1>3, FS_CardinalityType
    <3>2. Cardinality(B(b)) # 0
      BY <1>3, <2>1, FS_EmptySet
    <3> QED BY <1>2, <1>3, <3>1, <3>2, FS_Subset
  <2> HIDE DEF B
  <2> QED BY <1>1, <1>3, <2>2, Params
<1>5. ASSUME NEW b \in I, NEW c \in I, b < c PROVE V!Rank(I, b) # V!Rank(I, c)
  <2>1. B(b) \in SUBSET B(c) /\ c \in B(c) /\ c \notin B(b)
    <3>1. b \in Int /\ c \in Int /\ \A j \in I : j \in Int
      BY <1>1
    <3>2. \A j \in I : j <= b => j <= c
      BY <1>5, <3>1
    <3>3. c <= c /\ ~(c <= b)
      BY <1>5, <3>1
    <3> QED BY <3>2, <3>3
  <2> HIDE DEF B
  <2>2. Cardinality(B(c)) = Cardinality(B(b)) => B(c) = B(b)
    BY <1>3, <2>1, FS_Subset
  <2> QED BY <1>3, <2>1, <2>2
<1>6. ASSUME NEW b \in I, NEW c \in I, V!Rank(I, b) = V!Rank(I, c) PROVE b = c
  <2>1. b < c \/ c < b \/ b = c
    BY <1>1
  <2> QED BY <1>5, <1>6, <2>1
<1> DEFINE f == [b \in I |-> V!Rank(I, b)]
<1>7. f \in Surjection(I, 1 .. T)
  <2>1. f \in Injection(I, 1 .. T)
    BY <1>4, <1>6 DEF Injection, IsInjective
  <2>2. IsFiniteSet(1 .. T) /\ Cardinality(1 .. T) = T
    BY Params, FS_Interval
  <2> HIDE DEF f
  <2> QED BY <1>1, <2>1, <2>2, FS_Injection
<1>8. ASSUME NEW i \in 1 .. T PROVE At(I, i) \in I /\ V!Rank(I, At(I, i)) = i
  <2>1. \E b \in I : f[b] = i
    <3> HIDE DEF f
    <3> QED BY <1>7 DEF Surjection
  <2>2. \E b \in I : V!Rank(I, b) = i
    BY <2>1
  <2> QED BY <2>2 DEF At
<1>9. ASSUME NEW b \in I PROVE At(I, V!Rank(I, b)) = b
  <2>1. At(I, V!Rank(I, b)) \in I /\ V!Rank(I, At(I, V!Rank(I, b))) = V!Rank(I, b)
    BY <1>4, <1>8
  <2> QED BY <1>6, <2>1
<1> QED BY <1>1, <1>2, <1>4, <1>6, <1>8, <1>9

\* Equal remainders of numbers less than Size apart.
LEMMA Remainders ==
  ASSUME NEW n \in Nat, n > 0, NEW x \in Nat, NEW d \in Nat, d < n, x % n = (x + d) % n
  PROVE  d = 0
<1>1. x = n * (x \div n) + (x % n) /\ x \div n \in Int
  OBVIOUS
<1>2. x + d = n * ((x + d) \div n) + ((x + d) % n) /\ (x + d) \div n \in Int
  OBVIOUS
<1>3. PICK k \in Int : d = n * k
  <2> DEFINE p == x \div n
             q == (x + d) \div n
             r == x % n
  <2>1. x = n * p + r /\ x + d = n * q + r /\ p \in Int /\ q \in Int /\ r \in Int
    BY <1>1, <1>2
  <2> HIDE DEF p, q, r
  <2>2. d = n * q - n * p
    BY <2>1
  <2>3. n * q - n * p = n * (q - p)
    BY <2>1
  <2>4. q - p \in Int /\ d = n * (q - p)
    BY <2>1, <2>2, <2>3
  <2> QED BY <2>4, Zenon
<1>4. CASE k >= 1
  <2>1. n * k >= n
    BY <1>4
  <2> QED BY <1>3, <2>1
<1>5. CASE k <= 0
  <2>1. n * k <= 0
    BY <1>5
  <2> QED BY <1>3, <2>1
<1> QED BY <1>4, <1>5

\* The quorums of the versions, those that rotate and the first T members are quorums.
LEMMA AreQuorums ==
  /\ \A n \in Updates, v \in Version : IsQuorum(Quorum(v))
  /\ \A v \in Nat : IsQuorum(Rotating(v))
  /\ IsQuorum(FirstT)
<1>1. ASSUME NEW n \in Updates, NEW v \in Version PROVE IsQuorum(Quorum(v))
  <2>1. PICK k \in Updates : v \in 0 .. k - 1
    <3>1. CASE v = 0
      BY <3>1, Params
    <3>2. CASE v # 0
      BY <3>2 DEF Version
    <3> QED BY <3>1, <3>2
  <2> QED BY <2>1, ParamsAssumption DEF IsQuorum, Member
<1>2. ASSUME NEW v \in Nat PROVE IsQuorum(Rotating(v))
  <2> DEFINE f == [j \in 0 .. T - 1 |-> (v + j) % Size]
  <2>1. ASSUME NEW j \in 0 .. T - 1, NEW k \in 0 .. T - 1, j < k PROVE (v + j) % Size # (v + k) % Size
    <3> SUFFICES ASSUME (v + j) % Size = (v + k) % Size PROVE FALSE
      OBVIOUS
    <3> DEFINE x == v + j
               d == k - j
    <3>1. x \in Nat /\ d \in Nat /\ d < Size /\ x + d = v + k /\ d # 0 /\ Size > 0
      BY <2>1, Params
    <3> HIDE DEF d
    <3>2. x % Size = (x + d) % Size
      BY <3>1
    <3> HIDE DEF x
    <3> QED BY <3>1, <3>2, Remainders, Params
  <2>2. f \in Bijection(0 .. T - 1, Rotating(v))
    <3>1. f \in [0 .. T - 1 -> Rotating(v)]
      BY DEF Rotating
    <3>2. ASSUME NEW j \in 0 .. T - 1, NEW k \in 0 .. T - 1, f[j] = f[k] PROVE j = k
      <4>1. j < k \/ k < j \/ j = k
        OBVIOUS
      <4> QED BY <2>1, <3>2, <4>1
    <3>3. \A b \in Rotating(v) : \E j \in 0 .. T - 1 : f[j] = b
      BY DEF Rotating
    <3> HIDE DEF f
    <3> QED BY <3>1, <3>2, <3>3 DEF Bijection, Injection, Surjection, IsInjective
  <2>3. ExistsBijection(0 .. T - 1, Rotating(v))
    BY <2>2 DEF ExistsBijection
  <2>4. IsFiniteSet(0 .. T - 1) /\ Cardinality(0 .. T - 1) = T
    BY RankFirst DEF FirstT
  <2>5. Cardinality(Rotating(v)) = T
    BY <2>3, <2>4, FS_Bijection
  <2> QED BY <2>5, Quorums DEF IsQuorum
<1>3. IsQuorum(FirstT)
  BY RankFirst, Params DEF IsQuorum
<1> QED BY <1>1, <1>2, <1>3

-----------------------------------------------------------------------------
(* The records of a quorum                                                 *)

\* The signatures of one message at one slot by the keys K[i], for the indices of a set,
\* and the same with their indices.
KeyRow(K, I, m, slot) == {[key |-> K[i], message |-> m, slot |-> slot] : i \in I}
Pairs(K, I, m, slot) == {<<i, [key |-> K[i], message |-> m, slot |-> slot]>> : i \in I}

\* The raw record of them.
RawIs(r, K, I, list, v, m, slot) ==
  /\ r.tag = V!WotsXmss /\ r.list = list /\ r.version = v /\ r.width = Size /\ r.bits = I
  /\ r.sigs = [i \in 1 .. T |-> [key |-> K[At(I, i)], message |-> m, slot |-> slot]]

\* StatusList::new brings the signatures of a quorum into the order of their indices.
LEMMA NewOfQuorum ==
  ASSUME NEW K, NEW I, IsQuorum(I), NEW m, NEW slot, NEW list, NEW v,
         NEW r, r = V!StatusListNew(V!WotsXmss, list, v, Size, Pairs(K, I, m, slot))
  PROVE  RawIs(r, K, I, list, v, m, slot)
<1> DEFINE sig(i) == [key |-> K[i], message |-> m, slot |-> slot]
           pairs == Pairs(K, I, m, slot)
           bits == {p[1] : p \in pairs}
           choice(i) == CHOOSE p \in pairs : V!Rank(bits, p[1]) = i
<1>1. pairs = {<<i, sig(i)>> : i \in I}
  BY DEF Pairs
<1>2. bits = I
  <2>1. \A p \in pairs : p[1] \in I
    BY <1>1
  <2>2. ASSUME NEW i \in I PROVE i \in bits
    <3>1. <<i, sig(i)>> \in pairs /\ <<i, sig(i)>>[1] = i
      BY <1>1
    <3> QED BY <3>1
  <2> QED BY <2>1, <2>2
<1>3. r = V!RawRecord(V!WotsXmss, list, v, Size, bits, [i \in 1 .. V!Cardinality(bits) |-> choice(i)[2]])
  BY Zenon DEF V!StatusListNew
<1>4. ASSUME NEW i \in 1 .. T PROVE choice(i)[2] = sig(At(I, i))
  <2> DEFINE b == At(I, i)
  <2>1. b \in I /\ V!Rank(I, b) = i
    BY QuorumRanks
  <2> HIDE DEF b
  <2>2. <<b, sig(b)>> \in pairs
    BY <1>1, <2>1
  <2>3. ASSUME NEW p \in pairs, V!Rank(I, p[1]) = i PROVE p = <<b, sig(b)>>
    <3>1. PICK d \in I : p = <<d, sig(d)>>
      BY <1>1
    <3>2. d = b
      <4>1. V!Rank(I, d) = V!Rank(I, b)
        BY <2>1, <2>3, <3>1
      <4> QED BY <2>1, <4>1, QuorumRanks
    <3> QED BY <3>1, <3>2
  <2>4. <<b, sig(b)>>[1] = b
    OBVIOUS
  <2> HIDE DEF pairs, bits
  <2>5. \E p \in pairs : V!Rank(bits, p[1]) = i
    BY <1>2, <2>1, <2>2, <2>4
  <2>6. choice(i) \in pairs /\ V!Rank(bits, choice(i)[1]) = i
    BY <2>5
  <2> HIDE DEF choice
  <2>7. choice(i) = <<b, sig(b)>>
    BY <1>2, <2>3, <2>6
  <2> QED BY <2>7 DEF b
<1> HIDE DEF pairs, bits, choice
<1>5. /\ r.tag = V!WotsXmss /\ r.list = list /\ r.version = v /\ r.width = Size /\ r.bits = bits
      /\ r.sigs = [i \in 1 .. V!Cardinality(bits) |-> choice(i)[2]]
  BY <1>3 DEF V!RawRecord
<1>6. V!Cardinality(bits) = T
  BY <1>2, SameCardinality DEF IsQuorum
<1>7. r.sigs = [i \in 1 .. T |-> sig(At(I, i))]
  BY <1>4, <1>5, <1>6
<1> QED BY <1>2, <1>5, <1>7 DEF RawIs

\* So does a program that has the keys of a run.
LEMMA RawOfQuorum ==
  ASSUME NEW K, NEW I, IsQuorum(I), \A i \in I : K[i].index = i, NEW m, NEW slot, NEW list, NEW v,
         NEW r, r = Raw(list, v, KeyRow(K, I, m, slot))
  PROVE  RawIs(r, K, I, list, v, m, slot)
<1>1. {<<s.key.index, s>> : s \in KeyRow(K, I, m, slot)} = Pairs(K, I, m, slot)
  BY DEF KeyRow, Pairs
<1>2. r = V!StatusListNew(V!WotsXmss, list, v, Size, Pairs(K, I, m, slot))
  BY <1>1 DEF Raw
<1> QED BY <1>2, NewOfQuorum

\* The keys of a run's committee, by index.
CommitteeKeys(run) == [i \in Member |-> [run |-> run, outsider |-> FALSE, index |-> i]]

\* The keys of a quorum are the anchor's members at its indices.
LEMMA CommitteeKeyFacts ==
  ASSUME NEW run, NEW I, IsQuorum(I)
  PROVE  /\ \A i \in I : CommitteeKeys(run)[i].index = i
         /\ \A i \in I : Anchor(run).members[i + 1] = CommitteeKeys(run)[i]
         /\ Keys(run, FALSE, I) = {CommitteeKeys(run)[i] : i \in I}
<1> DEFINE K == CommitteeKeys(run)
<1>1. \A i \in I : i \in Member /\ K[i] = [run |-> run, outsider |-> FALSE, index |-> i]
  BY DEF IsQuorum, CommitteeKeys
<1>2. \A i \in I : i + 1 \in 1 .. Size /\ (i + 1) - 1 = i
  <2>1. \A i \in I : i \in 0 .. Size - 1
    BY DEF IsQuorum, Member
  <2> QED BY <2>1, Params
<1>3. \A i \in I : Anchor(run).members[i + 1] = K[i]
  <2>1. Anchor(run).members = [i \in 1 .. Size |-> [run |-> run, outsider |-> FALSE, index |-> i - 1]]
    BY DEF Anchor
  <2> HIDE DEF K
  <2> QED BY <1>1, <1>2, <2>1
<1> HIDE DEF K
<1>4. Keys(run, FALSE, I) = {K[i] : i \in I}
  BY <1>1 DEF Keys
<1>5. \A i \in I : K[i].index = i
  BY DEF IsQuorum, CommitteeKeys, K
<1> QED BY <1>3, <1>4, <1>5 DEF K

\* What they sign.
LEMMA CommitteeRow ==
  ASSUME NEW run, NEW I, IsQuorum(I), NEW m, NEW slot
  PROVE  Signatures(Keys(run, FALSE, I), m, slot) = KeyRow(CommitteeKeys(run), I, m, slot)
<1> DEFINE K == CommitteeKeys(run)
<1>1. Keys(run, FALSE, I) = {K[i] : i \in I}
  BY CommitteeKeyFacts
<1> HIDE DEF K
<1>2. Signatures(Keys(run, FALSE, I), m, slot) = KeyRow(K, I, m, slot)
  BY <1>1 DEF Signatures, KeyRow
<1> QED BY <1>2 DEF K

\* What prover makes of a raw record of a quorum, and what raw_agg and verify_status_list
\* make of it.
UpdateIs(run, I, list, v, r) ==
  LET a == Anchor(run) IN
  /\ r.list = list /\ r.version = v /\ r.bits = I
  /\ Snark(list, v, Proof(a, r, AggregationInputs(a, r))) = ProvedUpdate(run, I, list, v)
  /\ V!SlotFor(a, v) # V!NoSlot => V!RawDecodes(r) /\ V!VerifyStatusList(a, r)

\* The raw record of any quorum is proved and verified so.
LEMMA UpdateOfQuorum ==
  ASSUME NEW run, NEW I, IsQuorum(I), NEW list, NEW v,
         NEW r, r = Raw(list, v, QuorumSignatures(run, I, list, v))
  PROVE  UpdateIs(run, I, list, v, r)
<1> DEFINE a == Anchor(run)
           K == CommitteeKeys(run)
           m == Message(a, list, v)
           slot == V!SlotFor(a, v)
           sig(i) == [key |-> K[i], message |-> m, slot |-> slot]
<1>1. /\ \A i \in I : K[i].index = i
      /\ \A i \in I : a.members[i + 1] = K[i]
      /\ Keys(run, FALSE, I) = {K[i] : i \in I}
      /\ QuorumSignatures(run, I, list, v) = KeyRow(K, I, m, slot)
  <2>1. QuorumSignatures(run, I, list, v) = Signatures(Keys(run, FALSE, I), m, slot)
    BY Zenon DEF QuorumSignatures
  <2> HIDE DEF m, slot
  <2>2. Signatures(Keys(run, FALSE, I), m, slot) = KeyRow(K, I, m, slot)
    BY CommitteeRow
  <2>3. /\ \A i \in I : K[i].index = i
        /\ \A i \in I : a.members[i + 1] = K[i]
        /\ Keys(run, FALSE, I) = {K[i] : i \in I}
    BY CommitteeKeyFacts
  <2> QED BY <2>1, <2>2, <2>3, Zenon
<1>2. RawIs(r, K, I, list, v, m, slot)
  <2> HIDE DEF K, m, slot
  <2> QED BY <1>1, RawOfQuorum
<1>3. /\ r.tag = V!WotsXmss /\ r.list = list /\ r.version = v /\ r.width = Size /\ r.bits = I
      /\ r.sigs = [i \in 1 .. T |-> sig(At(I, i))]
  <2> HIDE DEF K, m, slot
  <2> QED BY <1>2 DEF RawIs
<1>4. Len(r.sigs) = T
  BY <1>3, Params
<1>5. Anchor(run).t = T /\ V!N(a) = Size
  BY Params, Anchors DEF V!N, Anchor
<1> DEFINE in == AggregationInputs(a, r)
<1>6. in = [i \in 1 .. T |-> <<a.members[At(I, i) + 1], r.sigs[i]>>]
  <2>1. in = [i \in 1 .. Len(r.sigs) |-> <<a.members[(CHOOSE b \in r.bits : V!Rank(r.bits, b) = i) + 1], r.sigs[i]>>]
    BY Zenon DEF AggregationInputs
  <2> HIDE DEF in
  <2> QED BY <1>3, <1>4, <2>1 DEF At
<1> HIDE DEF K, m, slot, a, in
<1>7. DOMAIN in = 1 .. T /\ \A i \in 1 .. T : in[i] = <<K[At(I, i)], sig(At(I, i))>>
  <2>1. \A i \in 1 .. T : At(I, i) \in I
    BY QuorumRanks
  <2> QED BY <1>1, <1>3, <1>6, <2>1
<1>8. {in[i][1] : i \in DOMAIN in} = {K[i] : i \in I}
  <2>1. \A i \in 1 .. T : At(I, i) \in I
    BY QuorumRanks
  <2>2. \A b \in I : V!Rank(I, b) \in 1 .. T /\ At(I, V!Rank(I, b)) = b
    BY QuorumRanks
  <2>3. ASSUME NEW i \in DOMAIN in PROVE in[i][1] \in {K[b] : b \in I}
    BY <1>7, <2>1
  <2>4. ASSUME NEW b \in I PROVE K[b] \in {in[i][1] : i \in DOMAIN in}
    <3>1. V!Rank(I, b) \in DOMAIN in /\ in[V!Rank(I, b)][1] = K[b]
      BY <1>7, <2>2
    <3> QED BY <3>1
  <2> QED BY <2>3, <2>4
<1> DEFINE all == \A i \in DOMAIN in : V!XmssVerify(in[i][1], m, in[i][2], slot)
           agg == V!MakeAggregate({in[i][1] : i \in DOMAIN in}, m, slot)
<1>9. all = TRUE
  BY <1>7 DEF V!XmssVerify
<1>10. Aggregate(in, m, slot) = [agg EXCEPT !.body = all]
  BY Zenon DEF Aggregate
<1> HIDE DEF all
<1>11. agg = [claims |-> agg.claims, sphincs |-> FALSE, canonical |-> TRUE, body |-> TRUE]
  BY DEF V!MakeAggregate, V!Aggregate
<1> HIDE DEF agg
<1>12. [agg EXCEPT !.body = all] = agg
  <2> DEFINE yes == TRUE
  <2>1. agg = [claims |-> agg.claims, sphincs |-> FALSE, canonical |-> TRUE, body |-> yes] /\ all = yes
    BY <1>9, <1>11
  <2> HIDE DEF yes
  <2> QED BY <2>1
<1>13. Aggregate(in, m, slot) = V!MakeAggregate(Keys(run, FALSE, I), m, slot)
  BY <1>1, <1>8, <1>10, <1>12 DEF agg
<1>14. Proof(a, r, in) = Aggregate(in, m, slot)
  BY <1>3 DEF Proof, m, slot
<1>15. Snark(list, v, Proof(a, r, in)) = ProvedUpdate(run, I, list, v)
  BY <1>13, <1>14, Zenon DEF ProvedUpdate, m, slot, a
<1>16. Cardinality(r.bits) = T /\ V!Cardinality(r.bits) = T /\ I \subseteq Member
  BY <1>3, SameCardinality DEF IsQuorum
<1>17. V!RawDecodes(r)
  BY <1>3, <1>4, <1>16, Params DEF V!RawDecodes, Member
<1>18. ASSUME slot # V!NoSlot PROVE V!VerifyStatusList(a, r)
  <2>1. a.t = T /\ T # 0 /\ V!N(a) = Size /\ T >= T
    BY <1>5, Params DEF a
  <2>2. ASSUME NEW i \in I PROVE r.sigs[V!Rank(I, i)] = [key |-> a.members[i + 1], message |-> m, slot |-> slot]
    <3>1. V!Rank(I, i) \in 1 .. T /\ At(I, V!Rank(I, i)) = i
      BY QuorumRanks
    <3>2. r.sigs[V!Rank(I, i)] = sig(At(I, V!Rank(I, i)))
      BY <1>3, <3>1
    <3> QED BY <1>1, <3>1, <3>2
  <2>3. m = V!MessageFor(a, r.tag, r.list, r.version) /\ slot = V!SlotFor(a, r.version)
    BY <1>3 DEF m, slot, Message
  <2>4. \A i \in r.bits :
          V!XmssVerify(a.members[i + 1], V!MessageFor(a, r.tag, r.list, r.version),
                       r.sigs[V!Rank(r.bits, i)], V!SlotFor(a, r.version))
    <3>1. r.bits = I
      BY <1>3
    <3>2. \A k : V!XmssVerify(k, m, [key |-> k, message |-> m, slot |-> slot], slot)
      <4> HIDE DEF m, slot
      <4> QED BY DEF V!XmssVerify
    <3>3. ASSUME NEW i \in I PROVE V!XmssVerify(a.members[i + 1], m, r.sigs[V!Rank(I, i)], slot)
      <4>1. r.sigs[V!Rank(I, i)] = [key |-> a.members[i + 1], message |-> m, slot |-> slot]
        BY <2>2
      <4> HIDE DEF m, slot
      <4> QED BY <3>2, <4>1, Zenon
    <3> HIDE DEF m, slot
    <3> QED BY <2>3, <3>1, <3>3, Zenon
  <2>5. a.t # 0 /\ r.width = V!N(a) /\ V!SlotFor(a, r.version) # V!NoSlot
    BY <1>3, <1>18, <2>1, <2>3
  <2>6. V!Cardinality(r.bits) >= a.t /\ V!Cardinality(r.bits) = Len(r.sigs)
    BY <1>4, <1>16, <2>1
  <2> QED BY <2>4, <2>5, <2>6, Zenon DEF V!VerifyStatusList
<1> QED BY <1>3, <1>15, <1>17, <1>18 DEF UpdateIs, a, in, slot

\* A proved update of signatures that exist is authentic, names its quorum, and carries
\* its list and version.
ProvedIs(run, I, list, v, u) ==
  /\ u.list = list /\ u.version = v
  /\ V!PubKeys(u.proof) = {Anchor(run).members[i + 1] : i \in I}
  /\ QuorumSignatures(run, I, list, v) \subseteq signed => Authentic(Anchor(run), u)

\* The record that prover makes of any quorum is such an update.
LEMMA ProvedFacts ==
  ASSUME NEW run, NEW I, IsQuorum(I), NEW list, NEW v, NEW u, u = ProvedUpdate(run, I, list, v)
  PROVE  ProvedIs(run, I, list, v, u)
<1> DEFINE a == Anchor(run)
           m == Message(a, list, v)
           slot == V!SlotFor(a, v)
           KS == Keys(run, FALSE, I)
           g == [slot |-> slot, message |-> m]
           sig(k) == [key |-> k, message |-> m, slot |-> slot]
<1>1. /\ u.tag = V!WotsXmss /\ u.list = list /\ u.version = v
      /\ u.proof = [claims |-> {sig(k) : k \in KS}, sphincs |-> FALSE, canonical |-> TRUE, body |-> TRUE]
  BY DEF ProvedUpdate, Snark, V!SnarkRecord, V!MakeAggregate, V!Aggregate
<1>2. KS = {CommitteeKeys(run)[i] : i \in I} /\ \A i \in I : a.members[i + 1] = CommitteeKeys(run)[i]
  BY CommitteeKeyFacts
<1>3. KS = {a.members[i + 1] : i \in I}
  <2> HIDE DEF KS, a
  <2> QED BY <1>2
<1>4. KS \subseteq V!MembersOf(a)
  <2>1. V!MembersOf(a) = {[run |-> run, outsider |-> FALSE, index |-> i] : i \in Member}
    BY CommitteeMembers
  <2> QED BY <2>1 DEF Keys, IsQuorum
<1>5. Cardinality(KS) = T
  <2> DEFINE f == [i \in I |-> CommitteeKeys(run)[i]]
  <2>1. \A i \in I : CommitteeKeys(run)[i].index = i
    BY CommitteeKeyFacts
  <2>2. f \in Bijection(I, KS)
    <3> HIDE DEF KS
    <3>1. f \in [I -> KS]
      BY <1>2
    <3>2. \A x, y \in I : f[x] = f[y] => x = y
      <4> SUFFICES ASSUME NEW x \in I, NEW y \in I, f[x] = f[y] PROVE x = y
        OBVIOUS
      <4>1. CommitteeKeys(run)[x] = CommitteeKeys(run)[y]
        OBVIOUS
      <4>2. CommitteeKeys(run)[x].index = x /\ CommitteeKeys(run)[y].index = y
        BY <2>1
      <4> QED BY <4>1, <4>2
    <3>3. \A k \in KS : \E x \in I : f[x] = k
      BY <1>2
    <3> QED BY <3>1, <3>2, <3>3 DEF Bijection, Injection, Surjection, IsInjective
  <2>3. ExistsBijection(I, KS)
    BY <2>2 DEF ExistsBijection
  <2>4. IsFiniteSet(I)
    BY QuorumRanks
  <2> HIDE DEF KS
  <2> QED BY <2>3, <2>4, FS_Bijection DEF IsQuorum
<1>6. QuorumSignatures(run, I, list, v) = {sig(k) : k \in KS}
  BY DEF QuorumSignatures, Signatures
<1> HIDE DEF KS, m, slot, a
<1>7. V!PubKeys(u.proof) = KS
  <2>1. V!PubKeys(u.proof) = {c.key : c \in {sig(k) : k \in KS}}
    BY <1>1 DEF V!PubKeys
  <2>2. \A k \in KS : sig(k).key = k
    OBVIOUS
  <2> HIDE DEF sig
  <2> QED BY <2>1, <2>2
<1>8. V!XmssSigners(u.proof) = {g}
  <2>1. V!XmssSigners(u.proof) = {[slot |-> c.slot, message |-> c.message] : c \in {sig(k) : k \in KS}}
    BY <1>1 DEF V!XmssSigners
  <2>2. KS # {}
    BY <1>5, FS_EmptySet, Params
  <2>3. \A c \in {sig(k) : k \in KS} : c.slot = slot /\ c.message = m
    OBVIOUS
  <2>4. PICK k \in KS : TRUE
    BY <2>2
  <2>5. sig(k) \in {sig(x) : x \in KS}
    OBVIOUS
  <2> QED BY <2>1, <2>3, <2>5
<1>9. ASSUME QuorumSignatures(run, I, list, v) \subseteq signed PROVE Authentic(a, u)
  <2>1. u.proof.claims \subseteq signed /\ u.proof.body /\ ~u.proof.sphincs /\ u.proof.canonical
    BY <1>1, <1>6, <1>9
  <2>2. g.message = V!MessageFor(a, u.tag, u.list, u.version) /\ V!SlotFor(a, u.version) = g.slot
    BY <1>1 DEF m, slot, Message
  <2>3. V!Cardinality(V!PubKeys(u.proof)) >= a.t
    <3>1. a.t = T /\ T >= T
      BY Anchors, Params DEF a
    <3> QED BY <1>5, <1>7, <3>1, SameCardinality
  <2>4. V!AggregateVerifies(u.proof)
    BY <2>1 DEF V!AggregateVerifies
  <2> HIDE DEF g
  <2>5. V!Check(a, u)
    BY <1>4, <1>7, <1>8, <2>1, <2>2, <2>3, <2>4 DEF V!Check
  <2> QED BY <1>1, <2>1, <2>5 DEF Authentic, V!SnarkDecodes
<1> QED BY <1>1, <1>3, <1>7, <1>9 DEF ProvedIs, a

-----------------------------------------------------------------------------
(* raw_agg's controls                                                      *)

\* A record with a signature that is not the one its place calls for is refused.
LEMMA RefusedAt ==
  ASSUME NEW a, NEW r, NEW i \in r.bits,
         r.sigs[V!Rank(r.bits, i)] #
           [key |-> a.members[i + 1], message |-> V!MessageFor(a, r.tag, r.list, r.version),
            slot |-> V!SlotFor(a, r.version)]
  PROVE  ~V!VerifyStatusList(a, r)
BY DEF V!VerifyStatusList, V!XmssVerify

\* A row by another key, of another message or at another slot.
LEMMA RowRefused ==
  ASSUME NEW a, NEW K, NEW list, NEW v, NEW m, NEW slot, NEW r, RawIs(r, K, FirstT, list, v, m, slot),
         K[0] # a.members[1] \/ m # Message(a, list, v) \/ slot # V!SlotFor(a, v)
  PROVE  ~V!VerifyStatusList(a, r)
<1>1. /\ r.tag = V!WotsXmss /\ r.list = list /\ r.version = v /\ r.bits = FirstT
      /\ r.sigs = [i \in 1 .. T |-> [key |-> K[At(FirstT, i)], message |-> m, slot |-> slot]]
  BY DEF RawIs
<1>2. 0 \in FirstT /\ V!Rank(FirstT, 0) = 1 /\ 1 \in 1 .. T
  <2>1. V!Rank(FirstT, 0) = 0 + 1 /\ 0 + 1 \in 1 .. T
    BY Params, RankFirst
  <2> QED BY <2>1, Params
<1>3. At(FirstT, 1) = 0
  BY <1>2, AreQuorums, QuorumRanks
<1>4. r.sigs[1] = [key |-> K[0], message |-> m, slot |-> slot]
  BY <1>1, <1>2, <1>3
<1>5. r.sigs[1] # [key |-> a.members[0 + 1], message |-> V!MessageFor(a, r.tag, r.list, r.version),
                   slot |-> V!SlotFor(a, r.version)]
  <2>1. V!MessageFor(a, r.tag, r.list, r.version) = Message(a, list, v) /\ V!SlotFor(a, r.version) = V!SlotFor(a, v)
    BY <1>1 DEF Message
  <2>2. a.members[0 + 1] = a.members[1]
    OBVIOUS
  <2> QED BY <1>4, <2>1, <2>2
<1> QED BY <1>1, <1>2, <1>5, RefusedAt

\* The bits of a record are the indices of its signatures.
LEMMA NewBits ==
  ASSUME NEW tag, NEW list, NEW v, NEW n, NEW pairs
  PROVE  V!StatusListNew(tag, list, v, n, pairs).bits = {p[1] : p \in pairs}
BY DEF V!StatusListNew, V!RawRecord

\* The honest record, from which raw_agg makes controls.
LEMMA IndexedOfRow ==
  ASSUME NEW K, NEW list, NEW v, NEW m, NEW slot, NEW r, RawIs(r, K, FirstT, list, v, m, slot)
  PROVE  IndexedSignatures(r) = Pairs(K, FirstT, m, slot)
<1>1. /\ r.bits = FirstT
      /\ r.sigs = [i \in 1 .. T |-> [key |-> K[At(FirstT, i)], message |-> m, slot |-> slot]]
  BY DEF RawIs
<1>2. ASSUME NEW b \in FirstT PROVE r.sigs[V!Rank(FirstT, b)] = [key |-> K[b], message |-> m, slot |-> slot]
  <2>1. V!Rank(FirstT, b) \in 1 .. T /\ At(FirstT, V!Rank(FirstT, b)) = b
    BY AreQuorums, QuorumRanks
  <2> QED BY <1>1, <2>1
<1>3. IndexedSignatures(r) = {<<b, r.sigs[V!Rank(FirstT, b)]>> : b \in FirstT}
  BY <1>1, Zenon DEF IndexedSignatures
<1>4. ASSUME NEW b \in FirstT
      PROVE  <<b, r.sigs[V!Rank(FirstT, b)]>> = <<b, [key |-> K[b], message |-> m, slot |-> slot]>>
  BY <1>2, Zenon
<1>5. ASSUME NEW p PROVE p \in IndexedSignatures(r) <=> p \in Pairs(K, FirstT, m, slot)
  <2>1. p \in IndexedSignatures(r) <=> \E b \in FirstT : p = <<b, r.sigs[V!Rank(FirstT, b)]>>
    BY <1>3, Zenon
  <2>2. p \in Pairs(K, FirstT, m, slot) <=>
          \E b \in FirstT : p = <<b, [key |-> K[b], message |-> m, slot |-> slot]>>
    BY Zenon DEF Pairs
  <2> QED BY <1>4, <2>1, <2>2, Zenon
<1> QED BY <1>5, Zenon

\* Another list or version is another message.
LEMMA RelabelledRefused ==
  ASSUME NEW a, NEW K, NEW list, NEW v, NEW m, NEW slot, NEW r, RawIs(r, K, FirstT, list, v, m, slot),
         NEW l, NEW w, m # Message(a, l, w)
  PROVE  ~V!VerifyStatusList(a, Relabelled(r, l, w))
<1> DEFINE q == Relabelled(r, l, w)
<1>1. r.tag = V!WotsXmss
  BY DEF RawIs
<1>2. q = V!StatusListNew(V!WotsXmss, l, w, Size, Pairs(K, FirstT, m, slot))
  BY <1>1, IndexedOfRow DEF Relabelled
<1> HIDE DEF q
<1>3. RawIs(q, K, FirstT, l, w, m, slot)
  BY <1>2, AreQuorums, NewOfQuorum
<1>4. ~V!VerifyStatusList(a, q)
  BY <1>3, RowRefused
<1> QED BY <1>4 DEF q

\* One signature less is no quorum.
LEMMA ShortenedRefused ==
  ASSUME NEW a, a.t = T, NEW K, NEW list, NEW v, NEW m, NEW slot, NEW r, RawIs(r, K, FirstT, list, v, m, slot)
  PROVE  ~V!VerifyStatusList(a, Shortened(r))
<1> DEFINE pairs == {p \in IndexedSignatures(r) : V!Rank(r.bits, p[1]) < T}
           sig(i) == [key |-> K[i], message |-> m, slot |-> slot]
<1>1. r.bits = FirstT /\ IndexedSignatures(r) = {<<i, sig(i)>> : i \in FirstT}
  <2>1. r.bits = FirstT
    BY DEF RawIs
  <2>2. IndexedSignatures(r) = Pairs(K, FirstT, m, slot)
    BY IndexedOfRow
  <2> QED BY <2>1, <2>2 DEF Pairs
<1>2. {p[1] : p \in pairs} = 0 .. T - 2
  <2>1. \A b \in FirstT : V!Rank(FirstT, b) = b + 1 /\ b \in Nat
    BY RankFirst
  <2>2. \A b : b \in 0 .. T - 2 <=> b \in FirstT /\ b + 1 < T
    BY Params DEF FirstT
  <2>3. ASSUME NEW p \in pairs PROVE p[1] \in 0 .. T - 2
    <3>1. PICK b \in FirstT : p = <<b, sig(b)>>
      BY <1>1
    <3>2. p[1] = b /\ V!Rank(FirstT, b) < T
      BY <1>1, <3>1
    <3> QED BY <2>1, <2>2, <3>2
  <2>4. ASSUME NEW b \in 0 .. T - 2 PROVE b \in {p[1] : p \in pairs}
    <3>1. b \in FirstT /\ V!Rank(FirstT, b) < T
      BY <2>1, <2>2
    <3>2. <<b, sig(b)>> \in IndexedSignatures(r) /\ <<b, sig(b)>>[1] = b
      BY <1>1, <3>1
    <3>3. <<b, sig(b)>> \in pairs
      BY <1>1, <3>1, <3>2
    <3> QED BY <3>2, <3>3
  <2> QED BY <2>3, <2>4
<1>3. Shortened(r).bits = {p[1] : p \in pairs}
  <2>1. Shortened(r) = V!StatusListNew(r.tag, r.list, r.version, Size, pairs)
    BY Zenon DEF Shortened
  <2> HIDE DEF pairs
  <2> QED BY <2>1, NewBits
<1> HIDE DEF pairs
<1>4. Cardinality(0 .. T - 2) < T /\ Cardinality(0 .. T - 2) \in Nat
  <2>1. 0 \in Int /\ T - 2 \in Int
    BY Params
  <2>2. Cardinality(0 .. T - 2) = IF 0 > T - 2 THEN 0 ELSE (T - 2) - 0 + 1
    BY <2>1, FS_Interval
  <2> QED BY <2>2, Params
<1>5. ~(V!Cardinality(Shortened(r).bits) >= a.t)
  <2>1. V!Cardinality(Shortened(r).bits) = Cardinality(0 .. T - 2)
    BY <1>2, <1>3, SameCardinality
  <2> QED BY <1>4, <2>1, Params
<1> QED BY <1>5, Zenon DEF V!VerifyStatusList

\* A flipped bit makes the last signature one of no slot.
LEMMA CorruptRefused ==
  ASSUME NEW a, NEW K, NEW list, NEW v, NEW m, NEW slot, NEW r, RawIs(r, K, FirstT, list, v, m, slot),
         DOMAIN r = {"tag", "list", "version", "width", "bits", "sigs"}, V!SlotFor(a, v) # V!NoSlot
  PROVE  ~V!VerifyStatusList(a, CorruptLastSignature(r))
<1> DEFINE q == CorruptLastSignature(r)
           bad == [r.sigs EXCEPT ![T].slot = V!NoSlot]
<1>1. /\ r.tag = V!WotsXmss /\ r.list = list /\ r.version = v /\ r.bits = FirstT
      /\ r.sigs = [i \in 1 .. T |-> [key |-> K[At(FirstT, i)], message |-> m, slot |-> slot]]
  BY DEF RawIs
<1>2. Len(r.sigs) = T
  BY <1>1, Params
<1>3. q = [r EXCEPT !.sigs = bad]
  BY <1>2 DEF CorruptLastSignature
<1>4. q.bits = FirstT /\ q.version = v /\ q.sigs = bad
  <2> HIDE DEF bad, q
  <2> QED BY <1>1, <1>3
<1>5. T \in 1 .. T /\ bad[T].slot = V!NoSlot
  <2>1. T \in 1 .. T
    BY Params
  <2> DEFINE last == [key |-> K[At(FirstT, T)], message |-> m, slot |-> slot]
  <2>2. bad[T] = [last EXCEPT !.slot = V!NoSlot]
    BY <1>1, <2>1
  <2>3. [last EXCEPT !.slot = V!NoSlot].slot = V!NoSlot
    OBVIOUS
  <2> HIDE DEF bad, last
  <2> QED BY <2>1, <2>2, <2>3
<1>6. PICK i \in FirstT : V!Rank(FirstT, i) = T
  BY <1>5, AreQuorums, QuorumRanks
<1> HIDE DEF q, bad
<1>7. q.sigs[V!Rank(q.bits, i)] # [key |-> a.members[i + 1], message |-> V!MessageFor(a, q.tag, q.list, q.version),
                                   slot |-> V!SlotFor(a, q.version)]
  <2>1. q.sigs[V!Rank(q.bits, i)].slot = V!NoSlot
    BY <1>4, <1>5, <1>6
  <2>2. [key |-> a.members[i + 1], message |-> V!MessageFor(a, q.tag, q.list, q.version),
         slot |-> V!SlotFor(a, q.version)].slot = V!SlotFor(a, v)
    BY <1>4
  <2> QED BY <2>1, <2>2
<1>8. ~V!VerifyStatusList(a, q)
  BY <1>4, <1>6, <1>7, RefusedAt
<1> QED BY <1>8 DEF q

\* A raw record has these fields.
LEMMA RawFields ==
  ASSUME NEW list, NEW v, NEW sigs
  PROVE  /\ Raw(list, v, sigs).list = list
         /\ DOMAIN Raw(list, v, sigs) = {"tag", "list", "version", "width", "bits", "sigs"}
BY DEF Raw, V!StatusListNew, V!RawRecord

\* raw_agg's six controls are refused, over a fixture and by itself.
LEMMA RawRefused ==
  ASSUME NEW run \in Run, NEW n \in Updates, NEW list \in Seq(Entry), NEW l2, NEW l3,
         NEW honest, honest = Raw(list, n, Signs(Anchor(run), run, list, n, "honest")),
         NEW outsider, outsider = Raw(l2, n, MixedSignatures(run, l2, n)),
         NEW late, late = Raw(l3, n, Signs(Anchor(run), run, l3, n, "slot"))
  PROVE  RawControlsRefused(Anchor(run), honest, outsider, late)
<1> DEFINE a == Anchor(run)
           m(l) == Message(a, l, n)
           slot == V!SlotFor(a, n)
           after == V!SlotFor(a, LateVersion(n))
           K == MemberKeys(run)
           X == MixedKeys(run)
<1>1. /\ n \in Nat /\ slot # V!NoSlot /\ slot # after /\ n # n + 1
      /\ a.t = T
  <2>1. n \in Nat /\ n <= KeySlots + 1 /\ n + 1 \in Nat /\ n + 1 <= KeySlots + 1
    BY Params
  <2>2. slot = Genesis + n /\ slot # V!NoSlot /\ after = Genesis + (n + 1)
    BY <2>1, Slots DEF LateVersion
  <2> HIDE DEF slot, after
  <2> QED BY <2>1, <2>2, Params, Anchors
<1>2. (\A i \in FirstT : K[i].index = i) /\ (\A i \in FirstT : X[i].index = i)
  BY KeyRows
<1>3. \A J, mm, s : Row(J, mm, s) = KeyRow(J, FirstT, mm, s)
  BY DEF Row, KeyRow
<1>4. /\ honest = Raw(list, n, KeyRow(K, FirstT, m(list), slot))
      /\ outsider = Raw(l2, n, KeyRow(X, FirstT, m(l2), slot))
      /\ late = Raw(l3, n, KeyRow(K, FirstT, m(l3), after))
  BY <1>3, RowOfControl
<1> HIDE DEF slot, after, K, X, m
<1>5. /\ RawIs(honest, K, FirstT, list, n, m(list), slot)
      /\ RawIs(outsider, X, FirstT, l2, n, m(l2), slot)
      /\ RawIs(late, K, FirstT, l3, n, m(l3), after)
  BY <1>2, <1>4, AreQuorums, RawOfQuorum
<1>6. honest.list = list /\ honest.version = n
  BY <1>5 DEF RawIs
<1>7. ~V!VerifyStatusList(a, Relabelled(honest, Append(honest.list, Fake), honest.version))
  <2>1. m(list) # Message(a, Append(list, Fake), n)
    BY OtherList DEF m
  <2> HIDE DEF a
  <2> QED BY <1>5, <1>6, <2>1, RelabelledRefused
<1>8. ~V!VerifyStatusList(a, Relabelled(honest, honest.list, honest.version + 1))
  <2>1. m(list) # Message(a, list, n + 1)
    BY <1>1, OtherVersion DEF m
  <2> HIDE DEF a
  <2> QED BY <1>5, <1>6, <2>1, RelabelledRefused
<1>9. ~V!VerifyStatusList(a, Shortened(honest))
  BY <1>1, <1>5, ShortenedRefused
<1>10. ~V!VerifyStatusList(a, outsider)
  <2>1. X[0] # a.members[1]
    <3>1. 0 \in FirstT /\ 1 \in 1 .. T /\ 1 - 1 = 0
      BY Params
    <3>2. a.members[1] = MemberKeys(run)[0]
      BY <3>1, AnchorKeys
    <3> DEFINE yes == (0 = 0)
               no == FALSE
    <3>3. /\ X[0] = [run |-> run, outsider |-> yes, index |-> 0]
          /\ MemberKeys(run)[0] = [run |-> run, outsider |-> no, index |-> 0]
      BY <3>1 DEF X, MixedKeys, MemberKeys
    <3>4. yes # no
      OBVIOUS
    <3> HIDE DEF yes, no, a
    <3>5. X[0].outsider = yes /\ MemberKeys(run)[0].outsider = no
      BY <3>3
    <3> QED BY <3>2, <3>4, <3>5
  <2> HIDE DEF a
  <2> QED BY <1>5, <2>1, RowRefused
<1>11. ~V!VerifyStatusList(a, late)
  <2>1. after # V!SlotFor(a, n)
    BY <1>1 DEF slot
  <2> HIDE DEF a
  <2> QED BY <1>5, <2>1, RowRefused
<1>12. ~V!VerifyStatusList(a, CorruptLastSignature(honest))
  <2>1. DOMAIN honest = {"tag", "list", "version", "width", "bits", "sigs"}
    BY RawFields
  <2>2. V!SlotFor(a, n) # V!NoSlot
    BY <1>1 DEF slot
  <2> HIDE DEF a
  <2> QED BY <1>5, <2>1, <2>2, CorruptRefused
<1> QED BY <1>7, <1>8, <1>9, <1>10, <1>11, <1>12, Zenon DEF RawControlsRefused

-----------------------------------------------------------------------------
(* What a complete fixture holds                                           *)

\* A quorum signs with keys of its run.
LEMMA QuorumKeys ==
  ASSUME NEW run, NEW I, NEW list, NEW v, NEW s \in QuorumSignatures(run, I, list, v)
  PROVE  s.key.run = run
<1> DEFINE m == Message(Anchor(run), list, v)
           slot == V!SlotFor(Anchor(run), v)
<1>1. s \in Signatures(Keys(run, FALSE, I), m, slot)
  BY DEF QuorumSignatures
<1> HIDE DEF m, slot
<1>2. PICK k \in Keys(run, FALSE, I) : s = [key |-> k, message |-> m, slot |-> slot]
  BY <1>1 DEF Signatures
<1>3. k.run = run
  BY DEF Keys
<1> QED BY <1>2, <1>3

\* How the record of the program that runs changes.
GoesOn ==
  /\ job.by # "none" /\ job'.by = job.by /\ job'.run = job.run /\ job'.size = job.size
  /\ job'.step = job.step + 1

\* A program starts at step 0, and from there it goes on, ends or stays.
LEMMA JobChanges ==
  ASSUME IInv, [Next]_vars
  PROVE  /\ FixtureStart => job'.by = "fixture" /\ job'.step = 0
         /\ ProverStart => job' = NoJob \/ (job'.by \in {"prover", "honest-only"} /\ job'.step = 0)
         /\ SelfStart => job' = NoJob \/ (job'.by = "self" /\ job'.step = 0 /\ job'.list = <<>>)
         /\ MemoryStart => job'.by \in InMemory /\ job'.step = 0
         /\ ~(FixtureStart \/ ProverStart \/ SelfStart \/ MemoryStart) =>
              job' = job \/ job' = NoJob \/ GoesOn
<1>0. CoreTypes /\ JobInv
  BY DEF IInv
<1>1. job.step \in Nat /\ job.size \in Nat /\ runs \in Nat /\ job.list \in Seq(Entry)
  BY <1>0, JobTypes
<1>2. ASSUME runs < MaxRuns PROVE runs + 1 \in Run
  BY <1>1, <1>2, Params DEF Run
<1>3. ASSUME FixtureStart PROVE job'.by = "fixture" /\ job'.step = 0
  <2>1. PICK n \in Updates, e \in ListEntries :
          /\ runs < MaxRuns /\ runs' = runs + 1
          /\ job' = [NoJob EXCEPT !.by = "fixture", !.run = runs', !.size = n, !.entries = e]
    BY <1>3 DEF FixtureStart
  <2>2. runs' \in Run \cup {0} /\ "fixture" \in Program
    BY <1>2, <2>1 DEF Program
  <2> QED BY <2>1, <2>2, FixtureStartFields
<1>4. ASSUME ProverStart PROVE job' = NoJob \/ (job'.by \in {"prover", "honest-only"} /\ job'.step = 0)
  <2>1. PICK n \in Updates, by \in {"prover", "honest-only"} :
          LET found == (by = "honest-only" \/ T >= 2) /\ AnchorFile \in DOMAIN fixture
              run == IF found THEN prepared.run ELSE 0
          IN job' = IF found /\ Cardinality(UpdatesIn(FixtureNames)) = n
                    THEN [NoJob EXCEPT !.by = by, !.run = run, !.size = n] ELSE NoJob
    BY <1>4 DEF ProverStart
  <2> DEFINE run == IF (by = "honest-only" \/ T >= 2) /\ AnchorFile \in DOMAIN fixture THEN prepared.run ELSE 0
  <2>2. job' = [NoJob EXCEPT !.by = by, !.run = run, !.size = n] \/ job' = NoJob
    BY <2>1
  <2>3. run \in Run \cup {0} /\ by \in Program
    BY <1>0 DEF CoreTypes, Made, Program
  <2> HIDE DEF run
  <2>4. ASSUME job' = [NoJob EXCEPT !.by = by, !.run = run, !.size = n] PROVE job'.by = by /\ job'.step = 0
    BY <2>3, <2>4, StartFields
  <2> QED BY <2>2, <2>4, Zenon
<1>5. ASSUME SelfStart PROVE job' = NoJob \/ (job'.by = "self" /\ job'.step = 0 /\ job'.list = <<>>)
  <2>1. PICK n \in Updates :
          /\ runs < MaxRuns /\ runs' = runs + 1
          /\ job' = [NoJob EXCEPT !.by = "self", !.run = runs', !.size = n] \/ job' = NoJob
    BY <1>5 DEF SelfStart
  <2>2. runs' \in Run \cup {0} /\ "self" \in Program
    BY <1>2, <2>1 DEF Program
  <2>3. ASSUME job' = [NoJob EXCEPT !.by = "self", !.run = runs', !.size = n]
        PROVE  job'.by = "self" /\ job'.step = 0 /\ job'.list = <<>>
    BY <2>2, <2>3, StartFields
  <2> QED BY <2>1, <2>3, Zenon
<1>6. ASSUME MemoryStart PROVE job'.by \in InMemory /\ job'.step = 0
  <2>1. PICK n \in Updates, by \in InMemory :
          /\ runs < MaxRuns /\ runs' = runs + 1
          /\ job' = [NoJob EXCEPT !.by = by, !.run = runs', !.size = n]
    BY <1>6 DEF MemoryStart
  <2>2. runs' \in Run \cup {0} /\ by \in Program
    BY <1>2, <2>1 DEF Program, InMemory
  <2> QED BY <2>1, <2>2, StartFields
<1>7. ASSUME ~(FixtureStart \/ ProverStart \/ SelfStart \/ MemoryStart) PROVE job' = job \/ job' = NoJob \/ GoesOn
  <2>1. CASE FixtureUpdate
    <3>1. job.run \in Run /\ job.entries \in Nat
      BY <1>0, <2>1, JobTypes DEF FixtureUpdate, JobInv, Idle
    <3>2. AdvanceList(job.list, job.run, job.step, job.entries) \in Seq(Entry)
      BY <1>1, <3>1, AdvanceListType
    <3>3. /\ job.by = "fixture"
          /\ job' = [job EXCEPT !.step = @ + 1, !.list = AdvanceList(job.list, job.run, job.step, job.entries)]
      BY <2>1 DEF FixtureUpdate
    <3> QED BY <1>0, <3>2, <3>3, UpdateFields DEF GoesOn
  <2>2. CASE SelfUpdate \/ DemoUpdate \/ RawUpdate
    <3>1. job.by # "none" /\ job' = [job EXCEPT !.step = @ + 1, !.list = NextList]
      BY <2>2 DEF SelfUpdate, DemoUpdate, RawUpdate
    <3>2. NextList \in Seq(Entry)
      BY <1>0, <3>1, NextListType DEF JobInv, Idle
    <3> QED BY <1>0, <3>1, <3>2, UpdateFields DEF GoesOn
  <2>3. CASE \/ FixtureControl \/ FixtureOutsiderAnchor \/ FixtureOutsider \/ ProveUpdate \/ WriteCanonical
             \/ ProveControl \/ SelfControl \/ DemoControl \/ RawControlSigned \/ Kill \/ TornWrite
    <3>1. (Steps \/ Ends) /\ job.by # "none"
      BY <2>3 DEF FixtureControl, FixtureOutsiderAnchor, FixtureOutsider, ProveUpdate, WriteCanonical,
         ProveControl, SelfControl, DemoControl, RawControlSigned, Kill, TornWrite, Idle
    <3> QED BY <1>0, <3>1, StepFields DEF Ends, GoesOn
  <2>4. CASE InitState \/ Verify \/ VerifyRefused \/ NewMarkPath \/ Interrupted \/ UNCHANGED vars
    BY <2>4, WhatIsLeft DEF InitState, Verify, VerifyRefused, NewMarkPath, vars
  <2> QED BY <1>7, <2>1, <2>2, <2>3, <2>4 DEF Next, Interrupted
<1> QED BY <1>3, <1>4, <1>5, <1>6, <1>7

\* An update in the fixture that a step does not touch stays.
LEMMA FixtureUpdateStays ==
  ASSUME IInv, [Next]_vars, NEW v \in Version, FixtureUpdateIn(fixture, prepared.run, signed, v),
         prepared'.run = prepared.run,
         UpdateFile(v) \in DOMAIN fixture' =>
           UpdateFile(v) \in DOMAIN fixture /\ fixture'[UpdateFile(v)] = fixture[UpdateFile(v)]
  PROVE  FixtureUpdateIn(fixture', prepared'.run, signed', v)
<1> SUFFICES ASSUME UpdateFile(v) \in DOMAIN fixture' PROVE FixtureUpdateIn(fixture', prepared'.run, signed', v)
  BY DEF FixtureUpdateIn
<1> DEFINE r == fixture[UpdateFile(v)]
           own == QuorumSignatures(prepared.run, Quorum(v), r.list, v)
<1>1. r = Raw(r.list, v, own) /\ own \subseteq signed
  BY Zenon DEF FixtureUpdateIn
<1>2. \A s \in own : s.key.run = prepared.run
  BY QuorumKeys
<1>3. own \subseteq signed'
  BY <1>1, <1>2, SignaturesStay
<1>4. fixture'[UpdateFile(v)] = r
  OBVIOUS
<1> HIDE DEF r
<1> QED BY <1>1, <1>3, <1>4 DEF FixtureUpdateIn

\* The updates in the fixture directory are those of the quorums, and committee_fixture
\* writes all of them and the controls before it ends.
LEMMA FixtureCompleteStep ==
  ASSUME IInv, [Next]_vars, FixtureCompleteInv
  PROVE  FixtureCompleteInv'
<1>0. CoreTypes /\ JobInv /\ FixtureInv /\ FixtureProgress
  BY DEF IInv, FixtureCompleteInv
<1>1. /\ job.step \in Nat /\ job.size \in Nat /\ job.list \in Seq(Entry) /\ Version \subseteq Nat
      /\ job.by = "fixture" => prepared.run = job.run /\ prepared.size = job.size /\ ~prepared.done
  BY <1>0, JobTypes, Versions DEF JobInv
<1>2. ASSUME NEW f, prepared'.run = prepared.run,
             \A g \in DOMAIN fixture' : g # f => g \in DOMAIN fixture /\ fixture'[g] = fixture[g],
             \A v \in Version : f = UpdateFile(v) => FixtureUpdateIn(fixture', prepared'.run, signed', v),
             FixtureProgress'
      PROVE  FixtureCompleteInv'
  <2>1. ASSUME NEW v \in Version PROVE FixtureUpdateIn(fixture', prepared'.run, signed', v)
    <3>1. CASE f = UpdateFile(v)
      BY <1>2, <3>1
    <3>2. CASE f # UpdateFile(v)
      <4>1. FixtureUpdateIn(fixture, prepared.run, signed, v)
        BY DEF FixtureCompleteInv
      <4> QED BY <1>2, <3>2, <4>1, FixtureUpdateStays
    <3> QED BY <3>1, <3>2
  <2> QED BY <1>2, <2>1 DEF FixtureCompleteInv
<1>3. CASE FixtureStart
  <2>1. /\ prepared'.done = FALSE
        /\ \A g \in DOMAIN fixture' : g = AnchorFile
    BY <1>3 DEF FixtureStart, Write, Clear, Empty
  <2>2. job'.by = "fixture" /\ job'.step = 0
    BY <1>3, JobChanges
  <2>3. job'.size \in Nat
    <3>1. Moved
      BY JobMoves
    <3>2. job' # job /\ job' # NoJob
      BY <1>3, <2>2, NoJobFields DEF FixtureStart, Idle
    <3>3. job.by = "none"
      BY <1>3 DEF FixtureStart, Idle
    <3> QED BY <3>1, <3>2, <3>3 DEF Moved
  <2>4. \A v \in Version : UpdateFile(v) \notin DOMAIN fixture' /\ ~(v < job'.step)
    <3>1. \A v \in Version : UpdateFile(v) \notin DOMAIN fixture'
      BY <2>1, Files
    <3>2. \A v \in Version : ~(v < job'.step)
      BY <1>1, <2>2
    <3> QED BY <3>1, <3>2
  <2>5. FixtureProgress'
    BY <2>1, <2>2, <2>3, <2>4 DEF FixtureProgress
  <2> QED BY <2>4, <2>5 DEF FixtureCompleteInv, FixtureUpdateIn
<1>4. CASE FixtureUpdate
  <2> DEFINE list == AdvanceList(job.list, job.run, job.step, job.entries)
             own == QuorumSignatures(job.run, Quorum(job.step), list, job.step)
             f == UpdateFile(job.step)
             r == Raw(list, job.step, own)
  <2>1. job.by = "fixture" /\ job.step < job.size /\ Sign(own) /\ fixture' = Write(fixture, f, r)
    BY <1>4, Zenon DEF FixtureUpdate, QuorumSignatures
  <2>2. prepared' = prepared
    BY <1>4 DEF FixtureUpdate, history
  <2>3. /\ DOMAIN fixture' = DOMAIN fixture \cup {f} /\ fixture'[f] = r
        /\ \A g \in DOMAIN fixture' : g # f => g \in DOMAIN fixture /\ fixture'[g] = fixture[g]
    <3> HIDE DEF r, f
    <3> QED BY <2>1 DEF Write
  <2>4. r.list = list
    BY RawFields
  <2>5. own \subseteq signed'
    BY <2>1 DEF Sign
  <2>6. FixtureUpdateIn(fixture', prepared'.run, signed', job.step)
    <3>1. prepared'.run = job.run
      BY <1>1, <2>1, <2>2
    <3>2. r = Raw(r.list, job.step, QuorumSignatures(job.run, Quorum(job.step), r.list, job.step))
      BY <2>4
    <3>3. QuorumSignatures(job.run, Quorum(job.step), r.list, job.step) \subseteq signed'
      BY <2>4, <2>5
    <3> HIDE DEF r, own
    <3> QED BY <2>3, <3>1, <3>2, <3>3, Zenon DEF FixtureUpdateIn, f
  <2>7. GoesOn
    <3>1. job.run \in Run /\ job.entries \in Nat
      BY <1>0, <2>1, JobTypes DEF JobInv, Idle
    <3>2. list \in Seq(Entry)
      BY <1>1, <3>1, AdvanceListType
    <3>3. job' = [job EXCEPT !.step = @ + 1, !.list = list]
      BY <1>4 DEF FixtureUpdate
    <3> HIDE DEF list
    <3> QED BY <1>0, <2>1, <3>2, <3>3, UpdateFields DEF GoesOn
  <2>8. FixtureProgress'
    <3>1. ASSUME NEW v \in Version PROVE UpdateFile(v) \in DOMAIN fixture' <=> v < job'.step /\ v < job'.size
      <4>1. UpdateFile(v) \in DOMAIN fixture <=> v < job.step /\ v < job.size
        BY <1>0, <2>1 DEF FixtureProgress
      <4>2. UpdateFile(v) = f <=> v = job.step
        BY Files
      <4>3. v \in Nat
        BY <1>1
      <4> HIDE DEF f
      <4> QED BY <1>1, <2>1, <2>3, <2>7, <4>1, <4>2, <4>3 DEF GoesOn
    <3>2. ~(job'.step > job'.size) /\ ~(job'.step > job'.size + 1) /\ ~prepared'.done
      BY <1>1, <2>1, <2>2, <2>7 DEF GoesOn
    <3> QED BY <3>1, <3>2 DEF FixtureProgress
  <2>9. \A v \in Version : f = UpdateFile(v) => v = job.step
    BY Files
  <2> HIDE DEF f
  <2> QED BY <1>2, <2>2, <2>3, <2>6, <2>8, <2>9
<1>5. CASE FixtureControl \/ FixtureOutsiderAnchor
  <2>1. PICK f, record : /\ fixture' = Write(fixture, f, record)
                         /\ \A v : f # UpdateFile(v)
                         /\ FixtureControl => f = AttackFile(FixtureControls[job.step - job.size + 1])
    <3>1. CASE FixtureControl
      <4>1. \E record : fixture' = Write(fixture, AttackFile(FixtureControls[job.step - job.size + 1]), record)
        BY <3>1, Zenon DEF FixtureControl
      <4> QED BY <4>1, Files
    <3>2. CASE FixtureOutsiderAnchor /\ ~FixtureControl
      <4>1. \E record : fixture' = Write(fixture, OutsiderFile, record)
        BY <3>2 DEF FixtureOutsiderAnchor
      <4> QED BY <3>2, <4>1, Files
    <3> QED BY <1>5, <3>1, <3>2
  <2>2. /\ DOMAIN fixture' = DOMAIN fixture \cup {f}
        /\ \A g \in DOMAIN fixture' : g # f => g \in DOMAIN fixture /\ fixture'[g] = fixture[g]
    <3>1. fixture' = Write(fixture, f, record)
      BY <2>1
    <3> QED BY <3>1 DEF Write
  <2>3. prepared' = prepared /\ job.by = "fixture" /\ Steps
    BY <1>5 DEF FixtureControl, FixtureOutsiderAnchor, history
  <2>4. job'.by = job.by /\ job'.size = job.size /\ job'.step = job.step + 1
    BY <1>0, <2>3, StepFields
  <2>5. job.step >= job.size /\ (FixtureOutsiderAnchor => job.step = job.size + 3)
        /\ (FixtureControl => job.step - job.size + 1 \in 1 .. 3)
    <3>1. FixtureControl => job.step - job.size + 1 \in 1 .. 3
      BY DEF FixtureControl, FixtureControls
    <3>2. FixtureOutsiderAnchor => job.step = job.size + 3
      BY DEF FixtureOutsiderAnchor
    <3> QED BY <1>1, <1>5, <3>1, <3>2
  <2>6. /\ FixtureControl /\ job.step = job.size => f = AttackFile("honest")
        /\ FixtureControl /\ job.step = job.size + 1 => f = AttackFile("slot")
    <3>1. job.step = job.size => job.step - job.size + 1 = 1
      BY <1>1
    <3>2. job.step = job.size + 1 => job.step - job.size + 1 = 2
      BY <1>1
    <3>3. FixtureControls[1] = "honest" /\ FixtureControls[2] = "slot"
      BY DEF FixtureControls
    <3> QED BY <2>1, <3>1, <3>2, <3>3
  <2>7. /\ \A v \in Version : UpdateFile(v) \in DOMAIN fixture <=> v < job.step /\ v < job.size
        /\ job.step > job.size => AttackFile("honest") \in DOMAIN fixture
        /\ job.step > job.size + 1 => AttackFile("slot") \in DOMAIN fixture
    BY <1>0, <2>3 DEF FixtureProgress
  <2>8. \A v \in Version : UpdateFile(v) \in DOMAIN fixture' <=> v < job'.step /\ v < job'.size
    <3>1. \A v \in Version : UpdateFile(v) \in DOMAIN fixture' <=> UpdateFile(v) \in DOMAIN fixture
      BY <2>1, <2>2
    <3>2. ASSUME NEW v \in Version
          PROVE  (v < job.step /\ v < job.size) <=> (v < job'.step /\ v < job'.size)
      <4>1. v \in Nat
        BY Versions
      <4>2. job.step \in Nat /\ job.size \in Nat /\ job.step >= job.size
        BY <1>1, <2>5
      <4> QED BY <2>4, <4>1, <4>2
    <3> QED BY <2>7, <3>1, <3>2
  <2>9. job'.step > job'.size => AttackFile("honest") \in DOMAIN fixture'
    BY <1>1, <1>5, <2>2, <2>4, <2>5, <2>6, <2>7
  <2>10. job'.step > job'.size + 1 => AttackFile("slot") \in DOMAIN fixture'
    BY <1>1, <1>5, <2>2, <2>4, <2>5, <2>6, <2>7
  <2>11. FixtureProgress'
    BY <1>1, <2>3, <2>8, <2>9, <2>10 DEF FixtureProgress
  <2>12. \A v \in Version : f # UpdateFile(v)
    BY <2>1
  <2> QED BY <1>2, <2>2, <2>3, <2>11, <2>12
<1>6. CASE FixtureOutsider
  <2>1. job.by = "fixture" /\ job.step = job.size + 4 /\ job' = NoJob
        /\ \E record : fixture' = Write(fixture, AttackFile("outsider"), record)
    BY <1>6, Zenon DEF FixtureOutsider, Ends
  <2>2. /\ DOMAIN fixture' = DOMAIN fixture \cup {AttackFile("outsider")}
        /\ \A g \in DOMAIN fixture' : g # AttackFile("outsider") => g \in DOMAIN fixture /\ fixture'[g] = fixture[g]
    <3>1. PICK record : fixture' = Write(fixture, AttackFile("outsider"), record)
      BY <2>1
    <3> QED BY <3>1 DEF Write
  <2>3. prepared'.run = prepared.run /\ prepared'.size = prepared.size
    <3>1. prepared \in Made /\ prepared' = [prepared EXCEPT !.done = TRUE]
      BY <1>0, <1>6 DEF CoreTypes, FixtureOutsider
    <3> QED BY <3>1 DEF Made
  <2>4. \A v \in Version : UpdateFile(v) \in DOMAIN fixture' <=> v < prepared'.size
    <3>1. ASSUME NEW v \in Version PROVE UpdateFile(v) \in DOMAIN fixture' <=> v < prepared'.size
      <4>1. UpdateFile(v) \in DOMAIN fixture <=> v < job.step /\ v < job.size
        BY <1>0, <2>1 DEF FixtureProgress
      <4>2. v \in Nat /\ prepared'.size = job.size
        BY <1>1, <2>1, <2>3
      <4>3. UpdateFile(v) \in DOMAIN fixture' <=> UpdateFile(v) \in DOMAIN fixture
        BY <2>2, Files
      <4> QED BY <1>1, <2>1, <4>1, <4>2, <4>3
    <3> QED BY <3>1
  <2>5. AttackFile("honest") \in DOMAIN fixture /\ AttackFile("slot") \in DOMAIN fixture
    <3>1. job.step > job.size /\ job.step > job.size + 1
      BY <1>1, <2>1
    <3> QED BY <1>0, <2>1, <3>1 DEF FixtureProgress
  <2>6. FixtureDone(fixture', prepared'.size)
    BY <2>2, <2>4, <2>5 DEF FixtureDone, HasUpdates
  <2>7. FixtureProgress'
    BY <2>1, <2>6, NoJobFields DEF FixtureProgress
  <2> QED BY <1>2, <2>2, <2>3, <2>7, Files
<1>7. CASE ~(FixtureStart \/ FixtureUpdate \/ FixtureControl \/ FixtureOutsiderAnchor \/ FixtureOutsider \/ Interrupted)
  <2>1. fixture' = fixture /\ prepared' = prepared /\ ("fixture" \in cut => "fixture" \in cut')
    BY <1>7 DEF Next, vars, dirs, history, ProverStart, ProveUpdate, WriteCanonical, ProveControl, SelfStart, SelfUpdate,
       SelfControl, MemoryStart, DemoUpdate, DemoControl, RawUpdate, RawControlSigned,
       InitState, Verify, VerifyRefused, NewMarkPath, Kill, TornWrite, Interrupted
  <2>2. ASSUME job'.by = "fixture" PROVE job' = job
    <3>1. job' # NoJob
      BY <2>2, NoJobFields
    <3>2. ~(ProverStart \/ SelfStart \/ MemoryStart)
      BY <2>2, <3>1, JobChanges DEF InMemory
    <3>3. job' = job \/ GoesOn
      BY <1>7, <3>1, <3>2, JobChanges
    <3>4. ASSUME job' # job PROVE FALSE
      BY <1>7, <2>2, <3>1, <3>3, <3>4, WhoSteps DEF GoesOn, Idle
    <3> QED BY <3>4
  <2>3. FixtureProgress'
    BY <1>0, <2>1, <2>2 DEF FixtureProgress
  <2> QED BY <1>2, <2>1, <2>3, Files
<1>8. CASE Interrupted
  <2>1. job'.by # "fixture"
    BY <1>8, WhatIsLeft DEF Idle
  <2>2. prepared'.done /\ "fixture" \notin cut' => fixture' = fixture /\ prepared' = prepared /\ "fixture" \notin cut
    BY <1>8 DEF Interrupted, TornFixtureAnchor, TornOutAnchor, PartlyClearedFixture, PartlyClearedOut, Nothing
  <2>3. FixtureProgress'
    BY <1>0, <2>1, <2>2 DEF FixtureProgress
  <2>4. CASE DOMAIN fixture' = {}
    BY <2>3, <2>4 DEF FixtureCompleteInv, FixtureUpdateIn
  <2>5. CASE DOMAIN fixture' # {}
    <3>1. prepared' = prepared /\ \A g \in DOMAIN fixture' : g \in DOMAIN fixture /\ fixture'[g] = fixture[g]
      BY <1>8, <2>5, WhatIsLeft DEF Left
    <3> QED BY <1>2, <2>3, <3>1, Files
  <2> QED BY <2>4, <2>5
<1> QED BY <1>3, <1>4, <1>5, <1>6, <1>7, <1>8

\* The fixture directory has no gap as long as it is only written to.
LEMMA FixtureWholeStep ==
  ASSUME IInv, TornInv, [Next]_vars, FixtureProgress, FixtureWhole
  PROVE  FixtureWhole'
<1>0. CoreTypes /\ JobInv /\ FixtureInv
  BY DEF IInv
<1>1. job.step \in Nat /\ job.size \in Nat /\ Version \subseteq Nat
  BY <1>0, JobTypes, Versions
<1> DEFINE names == DOMAIN fixture' \cup fixtureTorn'
<1>2. ASSUME AnchorFile \in DOMAIN fixture', \A v, w \in Version : w < v /\ UpdateFile(v) \in names => UpdateFile(w) \in names
      PROVE  FixtureWhole'
  BY <1>2 DEF FixtureWhole, FixtureNames
<1>3. ASSUME job.by = "fixture"
      PROVE  /\ AnchorFile \in DOMAIN fixture /\ fixtureTorn = {}
             /\ \A v \in Version : UpdateFile(v) \in DOMAIN fixture <=> v < job.step /\ v < job.size
  BY <1>0, <1>3 DEF FixtureInv, TornInv, FixtureProgress
<1>4. ASSUME job.by = "fixture", NEW f, names = DOMAIN fixture \cup {f}, AnchorFile \in DOMAIN fixture',
             (\A v : f # UpdateFile(v)) \/ (f = UpdateFile(job.step) /\ job.step < job.size)
      PROVE  FixtureWhole'
  <2>1. CASE \A v : f # UpdateFile(v)
    <3>1. \A v \in Version : UpdateFile(v) \in names <=> v < job.step /\ v < job.size
      BY <1>3, <1>4, <2>1
    <3> HIDE DEF names
    <3>2. \A v, w \in Version : w < v /\ UpdateFile(v) \in names => UpdateFile(w) \in names
      BY <1>1, <3>1
    <3> QED BY <1>2, <1>4, <3>2
  <2>2. CASE f = UpdateFile(job.step) /\ job.step < job.size
    <3>1. \A v : f = UpdateFile(v) <=> v = job.step
      BY <2>2, Files
    <3>2. \A v \in Version : UpdateFile(v) \in names <=> (v < job.step /\ v < job.size) \/ v = job.step
      BY <1>3, <1>4, <3>1
    <3> HIDE DEF names
    <3>3. \A v, w \in Version : w < v /\ UpdateFile(v) \in names => UpdateFile(w) \in names
      BY <1>1, <2>2, <3>2
    <3> QED BY <1>2, <1>4, <3>3
  <2> QED BY <1>4, <2>1, <2>2
<1>5. CASE FixtureStart
  <2>1. fixture' = Write(Clear(fixture), AnchorFile, Anchor(runs')) /\ fixtureTorn' = {}
    BY <1>5 DEF FixtureStart
  <2>2. DOMAIN fixture' = {AnchorFile}
    BY <2>1 DEF Write, Clear, Empty
  <2> QED BY <1>2, <2>1, <2>2, Files
<1>6. CASE FixtureUpdate \/ FixtureControl \/ FixtureOutsiderAnchor \/ FixtureOutsider
  <2>1. job.by = "fixture" /\ fixtureTorn' = fixtureTorn
    BY <1>6 DEF FixtureUpdate, FixtureControl, FixtureOutsiderAnchor, FixtureOutsider, torn
  <2>2. PICK f, record : /\ fixture' = Write(fixture, f, record)
                         /\ (\A v : f # UpdateFile(v)) \/ (f = UpdateFile(job.step) /\ job.step < job.size)
    <3>1. CASE FixtureUpdate
      <4>1. job.step < job.size /\ \E record : fixture' = Write(fixture, UpdateFile(job.step), record)
        BY <3>1, Zenon DEF FixtureUpdate
      <4> QED BY <4>1
    <3>2. CASE FixtureControl
      <4>1. \E c, record : fixture' = Write(fixture, AttackFile(c), record)
        BY <3>2, Zenon DEF FixtureControl
      <4> QED BY <4>1, Files
    <3>3. CASE FixtureOutsiderAnchor
      <4>1. \E record : fixture' = Write(fixture, OutsiderFile, record)
        BY <3>3, Zenon DEF FixtureOutsiderAnchor
      <4> QED BY <4>1, Files
    <3>4. CASE FixtureOutsider
      <4>1. \E record : fixture' = Write(fixture, AttackFile("outsider"), record)
        BY <3>4, Zenon DEF FixtureOutsider
      <4> QED BY <4>1, Files
    <3> QED BY <1>6, <3>1, <3>2, <3>3, <3>4
  <2>3. DOMAIN fixture' = DOMAIN fixture \cup {f}
    <3>1. fixture' = Write(fixture, f, record)
      BY <2>2
    <3> QED BY <3>1 DEF Write
  <2>4. names = DOMAIN fixture \cup {f} /\ AnchorFile \in DOMAIN fixture'
    BY <1>3, <2>1, <2>3
  <2> QED BY <1>4, <2>1, <2>2, <2>4
<1>7. CASE TornWrite /\ job.by = "fixture"
  <2>1. fixture' = fixture /\ fixtureTorn' = {NextFile}
    BY <1>7 DEF TornWrite
  <2>2. (\A v : NextFile # UpdateFile(v)) \/ (NextFile = UpdateFile(job.step) /\ job.step < job.size)
    <3>1. CASE job.step < job.size
      <4>1. ~(job.step >= job.size) /\ job.step # job.size
        BY <1>1, <3>1
      <4> QED BY <3>1, <4>1, Zenon DEF NextFile
    <3>2. CASE ~(job.step < job.size)
      <4>1. job.step >= job.size /\ job.step - job.size + 1 \in 1 .. 5
        BY <1>0, <1>1, <1>7, <3>2 DEF JobInv
      <4>2. NextFile = FixtureTail[job.step - job.size + 1]
        BY <1>7, <3>2, <4>1 DEF NextFile
      <4>3. \A i \in 1 .. 5 : FixtureTail[i] = OutsiderFile \/ \E c : FixtureTail[i] = AttackFile(c)
        BY DEF FixtureTail
      <4> QED BY <4>1, <4>2, <4>3, Files
    <3> QED BY <3>1, <3>2
  <2> QED BY <1>3, <1>4, <1>7, <2>1, <2>2
<1>8. CASE TornFixtureAnchor \/ PartlyClearedFixture
  <2>1. CASE TornFixtureAnchor
    <3>1. DOMAIN fixture' = {} /\ fixtureTorn' = {AnchorFile}
      BY <2>1 DEF TornFixtureAnchor, Clear, Empty
    <3> QED BY <3>1, Files DEF FixtureWhole, FixtureNames
  <2>2. CASE PartlyClearedFixture
    BY <2>2 DEF PartlyClearedFixture, FixtureWhole
  <2> QED BY <1>8, <2>1, <2>2
<1>9. CASE ~(\/ FixtureStart \/ FixtureUpdate \/ FixtureControl \/ FixtureOutsiderAnchor \/ FixtureOutsider
             \/ (TornWrite /\ job.by = "fixture") \/ TornFixtureAnchor \/ PartlyClearedFixture)
  <2>1. fixture' = fixture /\ fixtureTorn' = fixtureTorn /\ ("fixture" \in cut => "fixture" \in cut')
    BY <1>9 DEF Next, vars, dirs, torn, history, ProverStart, ProveUpdate, WriteCanonical, ProveControl, SelfStart,
       SelfUpdate, SelfControl, MemoryStart, DemoUpdate, DemoControl, RawUpdate, RawControlSigned,
       InitState, Verify, VerifyRefused, NewMarkPath, Kill, TornWrite, TornOutAnchor, PartlyClearedOut
  <2> QED BY <2>1 DEF FixtureWhole, FixtureNames
<1> QED BY <1>5, <1>6, <1>7, <1>8, <1>9

-----------------------------------------------------------------------------
(* What a complete artifact directory holds                                *)

\* Whose step it is, if the artifact directory changes.
OutSteps ==
  \/ ProverStart \/ SelfStart \/ ProveUpdate \/ SelfUpdate \/ WriteCanonical \/ ProveControl \/ SelfControl
  \/ TornOutAnchor \/ PartlyClearedOut

\* Any other step leaves the artifact directory and its maker as they are.
LEMMA OutUntouched ==
  ASSUME IInv, [Next]_vars, ~OutSteps
  PROVE  /\ out' = out /\ made' = made /\ ("out" \in cut => "out" \in cut')
         /\ job'.by \in Making => job' = job
<1>1. out' = out /\ made' = made /\ ("out" \in cut => "out" \in cut')
  BY DEF OutSteps, Next, vars, dirs, history, FixtureStart, FixtureUpdate, FixtureControl, FixtureOutsiderAnchor,
     FixtureOutsider, MemoryStart, DemoUpdate, DemoControl, RawUpdate, RawControlSigned,
     InitState, Verify, VerifyRefused, NewMarkPath, Kill, TornWrite, TornFixtureAnchor, PartlyClearedFixture
<1>2. ASSUME job'.by \in Making PROVE job' = job
  <2>1. job' # NoJob /\ job'.by \notin InMemory /\ job'.by # "fixture"
    BY <1>2, NoJobFields DEF Making, InMemory
  <2>2. ~(FixtureStart \/ ProverStart \/ SelfStart \/ MemoryStart)
    BY <2>1, JobChanges DEF OutSteps
  <2>3. job' = job \/ GoesOn
    BY <2>1, <2>2, JobChanges
  <2>4. ASSUME job' # job PROVE FALSE
    <3>1. GoesOn /\ ~Idle /\ job.by \in Making
      BY <1>2, <2>3, <2>4 DEF GoesOn, Idle
    <3> QED BY <2>1, <2>4, <3>1, WhoSteps DEF Making, OutSteps
  <2> QED BY <2>4
<1> QED BY <1>1, <1>2

\* The fixture that prover has read is not written to.
LEMMA FixtureUntouched ==
  ASSUME IInv, [Next]_vars, made'.run = prepared'.run, ~ProverStart, ~SelfStart, ~TornOutAnchor,
         made'.run = made.run, made.run \in Run, cut' = {}
  PROVE  fixture' = fixture /\ prepared' = prepared /\ cut = {}
<1>0. CoreTypes /\ JobInv
  BY DEF IInv
<1>1. made.run \in Nat /\ prepared.run \in Nat /\ runs \in Nat /\ job.run \in Nat
  BY <1>0, JobTypes
<1>4. made.run = prepared'.run
  OBVIOUS
<1>2. ~FixtureStart
  <2> SUFFICES ASSUME FixtureStart PROVE FALSE
    OBVIOUS
  <2>1. PICK n : prepared' = [by |-> "fixture", run |-> runs', size |-> n, done |-> FALSE]
    BY DEF FixtureStart
  <2>2. runs' = runs + 1
    BY DEF FixtureStart
  <2>3. prepared'.run = runs + 1
    BY <2>1, <2>2
  <2>4. made.run <= runs
    BY <1>0 DEF JobInv
  <2> QED BY <1>1, <1>4, <2>3, <2>4
<1>3. ~(FixtureUpdate \/ FixtureControl \/ FixtureOutsiderAnchor \/ FixtureOutsider)
  <2> SUFFICES ASSUME FixtureUpdate \/ FixtureControl \/ FixtureOutsiderAnchor \/ FixtureOutsider PROVE FALSE
    OBVIOUS
  <2>1. job.by = "fixture"
    BY DEF FixtureUpdate, FixtureControl, FixtureOutsiderAnchor, FixtureOutsider
  <2>2. prepared.run = job.run /\ made.run < job.run
    BY <1>0, <2>1 DEF JobInv
  <2>3. prepared'.run = prepared.run
    <3>1. prepared \in Made
      BY <1>0 DEF CoreTypes
    <3>2. prepared' = prepared \/ prepared' = [prepared EXCEPT !.done = TRUE]
      BY DEF FixtureUpdate, FixtureControl, FixtureOutsiderAnchor, FixtureOutsider, history
    <3> QED BY <3>1, <3>2 DEF Made
  <2> QED BY <1>1, <1>4, <2>2, <2>3
<1>5. ~Interrupted
  <2>1. Nothing.run = 0 /\ made.run # 0
    BY Params DEF Nothing
  <2>2. ~TornFixtureAnchor
    BY <1>4, <2>1 DEF TornFixtureAnchor
  <2> QED BY <2>2 DEF Interrupted, PartlyClearedFixture, PartlyClearedOut
<1> QED BY <1>2, <1>3, <1>5 DEF Next, vars, dirs, history, ProveUpdate, WriteCanonical, ProveControl, SelfUpdate,
       SelfControl, MemoryStart, DemoUpdate, DemoControl, RawUpdate, RawControlSigned,
       InitState, Verify, VerifyRefused, NewMarkPath, Kill, TornWrite, Interrupted

\* An update in the artifact directory that a step does not touch stays.
LEMMA OutUpdateStays ==
  ASSUME IInv, [Next]_vars, NEW v \in Version, OutUpdateIn(out, made.run, made.by, signed, v),
         made'.run = made.run, made'.by = made.by,
         UpdateFile(v) \in DOMAIN out' => UpdateFile(v) \in DOMAIN out /\ out'[UpdateFile(v)] = out[UpdateFile(v)]
  PROVE  OutUpdateIn(out', made'.run, made'.by, signed', v)
<1> SUFFICES ASSUME UpdateFile(v) \in DOMAIN out' PROVE OutUpdateIn(out', made'.run, made'.by, signed', v)
  BY DEF OutUpdateIn
<1> DEFINE u == out[UpdateFile(v)]
           I == QuorumOf(made.by, v)
           own == QuorumSignatures(made.run, I, u.list, v)
<1>1. u = ProvedUpdate(made.run, I, u.list, v) /\ own \subseteq signed
  BY Zenon DEF OutUpdateIn
<1>2. \A s \in own : s.key.run = made.run
  BY QuorumKeys
<1>3. own \subseteq signed'
  BY <1>1, <1>2, SignaturesStay
<1>4. out'[UpdateFile(v)] = u
  OBVIOUS
<1> HIDE DEF u
<1> QED BY <1>1, <1>3, <1>4 DEF OutUpdateIn

\* A step that writes another file than an update, or none.
LEMMA UpdatesStay ==
  ASSUME IInv, [Next]_vars, OutUpdatesInv, NEW f, \A v : f # UpdateFile(v),
         \A g \in DOMAIN out' : g # f => g \in DOMAIN out /\ out'[g] = out[g],
         DOMAIN out \subseteq DOMAIN out',
         made'.run = made.run, made'.by = made.by, ~ProverStart, ~SelfStart, ~TornOutAnchor,
         "out" \in cut => "out" \in cut', job'.by = "self" /\ job'.step <= job'.size => job' = job
  PROVE  OutUpdatesInv'
<1>0. CoreTypes /\ JobInv /\ OutInv /\ ProgressInv
  BY DEF IInv
<1>1. \A v : UpdateFile(v) \in DOMAIN out' => UpdateFile(v) \in DOMAIN out /\ out'[UpdateFile(v)] = out[UpdateFile(v)]
  OBVIOUS
<1>2. \A v : UpdateFile(v) \in DOMAIN out => UpdateFile(v) \in DOMAIN out'
  OBVIOUS
<1>3. ASSUME "out" \notin cut', NEW v \in Version PROVE OutUpdateIn(out', made'.run, made'.by, signed', v)
  <2>1. OutUpdateIn(out, made.run, made.by, signed, v)
    BY <1>3 DEF OutUpdatesInv
  <2> QED BY <1>1, <2>1, OutUpdateStays
<1>4. ASSUME cut' = {}, made'.by # "self", made'.run = prepared'.run, NEW v \in Version PROVE SameListIn(out', fixture', v)
  <2> SUFFICES ASSUME UpdateFile(v) \in DOMAIN out' PROVE SameListIn(out', fixture', v)
    BY DEF SameListIn
  <2>1. made.run \in Run
    BY <1>0, <1>1 DEF OutInv
  <2>2. fixture' = fixture /\ prepared' = prepared /\ cut = {}
    BY <1>4, <2>1, FixtureUntouched
  <2>3. SameListIn(out, fixture, v)
    BY <1>4, <2>2 DEF OutUpdatesInv
  <2> QED BY <1>1, <2>2, <2>3 DEF SameListIn
<1>6. ASSUME "out" \notin cut', made'.by = "self", NEW v \in Version PROVE GrowsIn(out', v)
  <2> SUFFICES ASSUME UpdateFile(v) \in DOMAIN out' PROVE GrowsIn(out', v)
    BY DEF GrowsIn
  <2>1. GrowsIn(out, v) /\ UpdateFile(v) \in DOMAIN out /\ out'[UpdateFile(v)] = out[UpdateFile(v)]
    BY <1>1, <1>6 DEF OutUpdatesInv
  <2>2. ASSUME v > 0 PROVE out'[UpdateFile(v - 1)] = out[UpdateFile(v - 1)]
    <3>1. UpdateFile(v - 1) \in DOMAIN out
      BY <2>1, <2>2 DEF GrowsIn
    <3> QED BY <1>1, <1>2, <3>1
  <2>3. v > 0 => UpdateFile(v - 1) \in DOMAIN out'
    BY <1>2, <2>1 DEF GrowsIn
  <2> QED BY <2>1, <2>2, <2>3 DEF GrowsIn
<1>7. ASSUME job'.by = "self", job'.step <= job'.size
      PROVE  /\ Len(job'.list) = job'.step
             /\ job'.step > 0 => job'.list = out'[UpdateFile(job'.step - 1)].list
  <2>1. job' = job
    BY <1>7
  <2>2. /\ job.by = "self" /\ job.step <= job.size /\ Len(job.list) = job.step
        /\ job.step > 0 => job.list = out[UpdateFile(job.step - 1)].list
    BY <1>7, <2>1 DEF OutUpdatesInv
  <2>3. job.step \in Nat /\ job.size \in Updates /\ job.size \in Nat
    BY <1>0, <2>2, JobTypes DEF JobInv, Idle
  <2>4. ASSUME job.step > 0 PROVE UpdateFile(job.step - 1) \in DOMAIN out
    <3>1. job.step - 1 \in Nat /\ job.step - 1 < job.size /\ job.step - 1 < job.step
      BY <2>2, <2>3, <2>4
    <3>2. job.step - 1 \in Version
      BY <2>3, <3>1, Versions
    <3> QED BY <1>0, <2>2, <3>1, <3>2 DEF ProgressInv, Making
  <2> QED BY <1>1, <1>2, <2>1, <2>2, <2>4
<1> QED BY <1>3, <1>4, <1>6, <1>7 DEF OutUpdatesInv

\* An update that a program adds in its turn is like the others.
LEMMA OutUpdateMade ==
  ASSUME IInv, [Next]_vars, \A w \in Version : OutUpdateIn(out, made.run, made.by, signed, w),
         NEW v \in Version, NEW list, NEW u,
         u = ProvedUpdate(made.run, QuorumOf(made.by, v), list, v), u.list = list,
         QuorumSignatures(made.run, QuorumOf(made.by, v), list, v) \subseteq signed',
         out' = Write(out, UpdateFile(v), u), made' = made
  PROVE  /\ \A w \in Version : OutUpdateIn(out', made'.run, made'.by, signed', w)
         /\ DOMAIN out' = DOMAIN out \cup {UpdateFile(v)} /\ out'[UpdateFile(v)] = u
         /\ \A g \in DOMAIN out : g # UpdateFile(v) => out'[g] = out[g]
<1>1. /\ DOMAIN out' = DOMAIN out \cup {UpdateFile(v)} /\ out'[UpdateFile(v)] = u
      /\ \A g \in DOMAIN out : g # UpdateFile(v) => out'[g] = out[g]
  <2>1. out' = Write(out, UpdateFile(v), u)
    OBVIOUS
  <2> QED BY <2>1 DEF Write
<1>2. ASSUME NEW w \in Version PROVE OutUpdateIn(out', made'.run, made'.by, signed', w)
  <2>1. CASE w = v
    <3>1. /\ out'[UpdateFile(w)] = u /\ u = ProvedUpdate(made'.run, QuorumOf(made'.by, w), u.list, w)
          /\ QuorumSignatures(made'.run, QuorumOf(made'.by, w), u.list, w) \subseteq signed'
      BY <1>1, <2>1
    <3> QED BY <3>1, Zenon DEF OutUpdateIn
  <2>2. CASE w # v
    <3>1. UpdateFile(w) # UpdateFile(v)
      BY <2>2, Files
    <3>2. UpdateFile(w) \in DOMAIN out' => UpdateFile(w) \in DOMAIN out /\ out'[UpdateFile(w)] = out[UpdateFile(w)]
      BY <1>1, <3>1
    <3>3. OutUpdateIn(out, made.run, made.by, signed, w)
      OBVIOUS
    <3> QED BY <3>2, <3>3, OutUpdateStays
  <2> QED BY <2>1, <2>2
<1> QED BY <1>1, <1>2

\* ProveUpdate turns the fixture's update into a record.
LEMMA ProvedInTurn ==
  ASSUME IInv, ProveUpdate, TornInv, CompleteInv
  PROVE  OutUpdatesInv'
<1>0. CoreTypes /\ JobInv /\ OutInv
  BY DEF IInv
<1>1. /\ job.by \in {"prover", "honest-only"} /\ job.step < job.size
      /\ UNCHANGED <<fixture, prepared, made, signed, cut>> /\ Steps
  BY DEF ProveUpdate, history
<1>16. made'.by # "self" /\ job'.by # "self"
  <2>1. job'.by = job.by
    BY <1>0, <1>1, StepFields
  <2> QED BY <1>0, <1>1, <2>1 DEF JobInv, Making
<1> SUFFICES ASSUME "out" \notin cut PROVE OutUpdatesInv'
  BY <1>1, <1>16 DEF OutUpdatesInv
<1>2. job.step \in Nat /\ job.size \in Updates /\ job.step \in Version
  BY <1>0, <1>1, JobTypes, Versions DEF JobInv, Idle
<1>3. /\ made.by = job.by /\ made.run = job.run /\ AnchorFile \in DOMAIN out
      /\ prepared.run = job.run
  BY <1>0, <1>1 DEF JobInv, Making
<1>4. out[AnchorFile] = Anchor(made.run)
  BY <1>0, <1>3 DEF OutInv
<1>17. PICK w \in Version :
         /\ IsNextUpdate(w)
         /\ LET b == out[AnchorFile]
                q == fixture[UpdateFile(w)]
            IN out' = Write(out, UpdateFile(job.step), Snark(q.list, q.version, Proof(b, q, AggregationInputs(b, q))))
  BY Zenon DEF ProveUpdate
<1>18. w = job.step
  <2>1. w \in UpdatesIn(FixtureNames) /\ V!Rank(UpdatesIn(FixtureNames), w) = job.step + 1
    BY <1>17 DEF IsNextUpdate
  <2>2. "fixture" \notin cut
    BY <1>1 DEF TornInv
  <2>3. \A x \in Version : x < w => UpdateFile(x) \in FixtureNames
    BY <2>1, <2>2 DEF CompleteInv, FixtureWhole, UpdatesIn
  <2>4. V!Rank(UpdatesIn(FixtureNames), w) = w + 1
    BY <2>1, <2>3, UpdateRank, Versions
  <2>5. w \in Nat
    BY Versions
  <2> QED BY <1>2, <2>1, <2>4, <2>5
<1> DEFINE v == job.step
           r == fixture[UpdateFile(v)]
           I == Quorum(v)
           a == Anchor(made.run)
           u == Snark(r.list, r.version, Proof(a, r, AggregationInputs(a, r)))
           own == QuorumSignatures(made.run, I, r.list, v)
<1>5. UpdateFile(v) \in DOMAIN fixture
  BY <1>17, <1>18 DEF IsNextUpdate
<1>6. r = Raw(r.list, v, own) /\ own \subseteq signed
  <2>1. FixtureUpdateIn(fixture, prepared.run, signed, v)
    BY <1>2 DEF CompleteInv, FixtureCompleteInv
  <2> QED BY <1>3, <1>5, <2>1, Zenon DEF FixtureUpdateIn
<1>7. IsQuorum(I)
  BY <1>2, AreQuorums
<1>8. UpdateIs(made.run, I, r.list, v, r)
  <2> HIDE DEF r, I
  <2> QED BY <1>6, <1>7, UpdateOfQuorum
<1>9. u = ProvedUpdate(made.run, I, r.list, v)
  <2>1. r.version = v /\ Snark(r.list, v, Proof(a, r, AggregationInputs(a, r))) = ProvedUpdate(made.run, I, r.list, v)
    BY <1>8, Zenon DEF UpdateIs
  <2> QED BY <2>1, Zenon
<1>10. u.list = r.list
  <2> HIDE DEF r
  <2>1. \A l, n, p : Snark(l, n, p).list = l
    BY DEF Snark, V!SnarkRecord
  <2> QED BY <2>1
<1>11. out' = Write(out, UpdateFile(v), u)
  BY <1>4, <1>17, <1>18, Zenon
<1>12. QuorumOf(made.by, v) = I
  BY <1>1, <1>3 DEF QuorumOf
<1>13. /\ [Next]_vars /\ made' = made /\ own \subseteq signed'
       /\ \A x \in Version : OutUpdateIn(out, made.run, made.by, signed, x)
  BY <1>1, <1>6 DEF Next, CompleteInv, OutUpdatesInv
<1> DEFINE l == r.list
<1>14. /\ \A x \in Version : OutUpdateIn(out', made'.run, made'.by, signed', x)
       /\ DOMAIN out' = DOMAIN out \cup {UpdateFile(v)} /\ out'[UpdateFile(v)] = u
       /\ \A g \in DOMAIN out : g # UpdateFile(v) => out'[g] = out[g]
  <2>1. u = ProvedUpdate(made.run, QuorumOf(made.by, v), l, v) /\ u.list = l
        /\ QuorumSignatures(made.run, QuorumOf(made.by, v), l, v) \subseteq signed'
    BY <1>9, <1>10, <1>12, <1>13, Zenon
  <2> HIDE DEF u, l, v
  <2>2. v \in Version
    BY <1>2 DEF v
  <2> QED BY <1>11, <1>13, <2>1, <2>2, OutUpdateMade
<1>15. ASSUME cut = {}, NEW x \in Version PROVE SameListIn(out', fixture', x)
  <2>1. SameListIn(out, fixture, x)
    BY <1>1, <1>3, <1>15 DEF CompleteInv, OutUpdatesInv
  <2>2. CASE x = v
    <3>1. out'[UpdateFile(x)].list = fixture'[UpdateFile(x)].list /\ UpdateFile(x) \in DOMAIN fixture'
      BY <1>1, <1>5, <1>10, <1>14, <2>2, Zenon
    <3> QED BY <3>1, Zenon DEF SameListIn
  <2>3. CASE x # v
    <3>1. UpdateFile(x) # UpdateFile(v)
      BY <2>3, Files
    <3>2. UpdateFile(x) \in DOMAIN out' => UpdateFile(x) \in DOMAIN out /\ out'[UpdateFile(x)] = out[UpdateFile(x)]
      <4> HIDE DEF u, v
      <4> QED BY <1>14, <3>1
    <3> QED BY <1>1, <2>1, <3>2, Zenon DEF SameListIn
  <2> QED BY <2>2, <2>3
<1> HIDE DEF v, u
<1> QED BY <1>1, <1>14, <1>15, <1>16 DEF OutUpdatesInv

\* A list that grows by one keeps what it had.
LEMMA AppendKeeps ==
  ASSUME NEW list \in Seq(Entry), NEW x
  PROVE  Len(Append(list, x)) = Len(list) + 1 /\ SubSeq(Append(list, x), 1, Len(list)) = list
<1>1. Len(list) \in Nat /\ DOMAIN list = 1 .. Len(list)
  OBVIOUS
<1>2. /\ Len(Append(list, x)) = Len(list) + 1
      /\ \A i \in 1 .. Len(list) : Append(list, x)[i] = list[i]
  BY <1>1
<1>3. SubSeq(Append(list, x), 1, Len(list)) = [i \in 1 .. Len(list) |-> Append(list, x)[i]]
  BY <1>1, <1>2
<1>4. list = [i \in 1 .. Len(list) |-> list[i]]
  BY <1>1
<1> QED BY <1>2, <1>3, <1>4

\* SelfUpdate makes the next list.
LEMMA GrownInTurn ==
  ASSUME IInv, SelfUpdate, TornInv, CompleteInv
  PROVE  OutUpdatesInv'
<1>0. CoreTypes /\ JobInv /\ OutInv /\ ProgressInv
  BY DEF IInv
<1> DEFINE v == job.step
           list == NextList
           I == Rotating(v)
           a == Anchor(job.run)
           own == QuorumSignatures(job.run, I, list, v)
           r == Raw(list, v, own)
           u == Snark(r.list, r.version, Proof(a, r, AggregationInputs(a, r)))
<1>1. /\ job.by = "self" /\ v < job.size /\ made' = made
      /\ Sign(UpdateSignatures(list, v))
      /\ job' = [job EXCEPT !.step = @ + 1, !.list = list]
  BY DEF SelfUpdate, history
<1>2. UpdateSignatures(list, v) = own
  BY DEF UpdateSignatures, QuorumSignatures
<1>3. out' = Write(out, UpdateFile(v), u)
  BY <1>2, Zenon DEF SelfUpdate
<1>4. v \in Nat /\ job.size \in Updates /\ job.size \in Nat /\ v \in Version /\ job.run \in Run /\ job.list \in Seq(Entry)
  BY <1>0, <1>1, JobTypes, Versions DEF JobInv, Idle
<1>5. made.by = "self" /\ made.run = job.run /\ made.size = job.size
  BY <1>0, <1>1 DEF JobInv, Making
<1>6. IsQuorum(I)
  BY <1>4, AreQuorums
<1>7. UpdateIs(job.run, I, list, v, r)
  <2> HIDE DEF v, list, I
  <2> QED BY <1>6, UpdateOfQuorum
<1>8. u = ProvedUpdate(job.run, I, list, v)
  <2>1. r.list = list /\ r.version = v /\ Snark(list, v, Proof(a, r, AggregationInputs(a, r))) = ProvedUpdate(job.run, I, list, v)
    BY <1>7, Zenon DEF UpdateIs
  <2> QED BY <2>1, Zenon
<1>9. u.list = list
  <2>1. \A l, n, p : Snark(l, n, p).list = l
    BY DEF Snark, V!SnarkRecord
  <2>2. r.list = list
    BY <1>7, Zenon DEF UpdateIs
  <2> HIDE DEF r, list
  <2> QED BY <2>1, <2>2
<1>10. QuorumOf(made.by, v) = I
  BY <1>5 DEF QuorumOf
<1>18. "out" \notin cut
  BY <1>1 DEF TornInv
<1>11. /\ [Next]_vars /\ own \subseteq signed'
       /\ \A w \in Version : OutUpdateIn(out, made.run, made.by, signed, w)
  BY <1>1, <1>2, <1>18 DEF Next, CompleteInv, OutUpdatesInv, Sign
<1>12. /\ \A w \in Version : OutUpdateIn(out', made'.run, made'.by, signed', w)
       /\ DOMAIN out' = DOMAIN out \cup {UpdateFile(v)} /\ out'[UpdateFile(v)] = u
       /\ \A g \in DOMAIN out : g # UpdateFile(v) => out'[g] = out[g]
  <2>1. u = ProvedUpdate(made.run, QuorumOf(made.by, v), list, v)
        /\ QuorumSignatures(made.run, QuorumOf(made.by, v), list, v) \subseteq signed'
    BY <1>5, <1>8, <1>10, <1>11, Zenon
  <2>2. made' = made /\ v \in Version
    BY <1>1, <1>4
  <2> HIDE DEF u, list, v
  <2> QED BY <1>3, <1>9, <1>11, <2>1, <2>2, OutUpdateMade
<1>13. Len(job.list) = v /\ (v > 0 => job.list = out[UpdateFile(v - 1)].list)
  BY <1>1, <1>4 DEF CompleteInv, OutUpdatesInv
<1>14. list \in Seq(Entry) /\ Len(list) = v + 1 /\ SubSeq(list, 1, v) = job.list
  <2>1. list \in Seq(Entry)
    BY <1>0, <1>4, NextListType
  <2>2. list = Append(job.list, Fresh(job.run, job.step, 0))
    BY DEF NextList, AdvanceList
  <2>3. \A x : Len(Append(job.list, x)) = Len(job.list) + 1 /\ SubSeq(Append(job.list, x), 1, Len(job.list)) = job.list
    BY <1>4, AppendKeeps
  <2> HIDE DEF list, v
  <2> QED BY <1>13, <2>1, <2>2, <2>3
<1>15. ASSUME NEW w \in Version PROVE GrowsIn(out', w)
  <2>1. GrowsIn(out, w)
    BY <1>5, <1>18 DEF CompleteInv, OutUpdatesInv
  <2>2. CASE w = v
    <3>1. ASSUME v > 0
          PROVE  UpdateFile(v - 1) \in DOMAIN out' /\ SubSeq(u.list, 1, v) = out'[UpdateFile(v - 1)].list
      <4>1. v - 1 \in Nat /\ v - 1 < job.size /\ v - 1 < v /\ v - 1 # v
        BY <1>1, <1>4, <3>1
      <4>2. v - 1 \in Version
        BY <1>4, <4>1, Versions
      <4>3. UpdateFile(v - 1) \in DOMAIN out
        BY <1>0, <1>1, <4>1, <4>2 DEF ProgressInv, Making
      <4>4. UpdateFile(v - 1) # UpdateFile(v)
        BY <4>1, Files
      <4> HIDE DEF u, list, v
      <4> QED BY <1>9, <1>12, <1>13, <1>14, <3>1, <4>3, <4>4
    <3>2. out'[UpdateFile(w)].list = list /\ u.list = list
      BY <1>9, <1>12, <2>2, Zenon
    <3> HIDE DEF u, list, v
    <3> QED BY <1>14, <2>2, <3>1, <3>2 DEF GrowsIn
  <2>3. CASE w # v
    <3>1. UpdateFile(w) # UpdateFile(v)
      BY <2>3, Files
    <3> SUFFICES ASSUME UpdateFile(w) \in DOMAIN out' PROVE GrowsIn(out', w)
      BY DEF GrowsIn
    <3>2. UpdateFile(w) \in DOMAIN out /\ out'[UpdateFile(w)] = out[UpdateFile(w)]
      <4> HIDE DEF u, v
      <4> QED BY <1>12, <3>1
    <3>3. w \in Nat /\ w < job.size
      BY <1>0, <1>5, <3>2, Versions DEF OutInv
    <3>4. w < v
      BY <1>0, <1>1, <3>2, <3>3 DEF ProgressInv, Making
    <3>5. UpdateFile(w - 1) # UpdateFile(v)
      <4>1. w - 1 # v
        BY <1>4, <3>3, <3>4
      <4> QED BY <4>1, Files
    <3>6. w > 0 => UpdateFile(w - 1) \in DOMAIN out
      BY <2>1, <3>2 DEF GrowsIn
    <3>7. w > 0 => UpdateFile(w - 1) \in DOMAIN out' /\ out'[UpdateFile(w - 1)] = out[UpdateFile(w - 1)]
      <4> HIDE DEF u, v
      <4> QED BY <1>12, <3>5, <3>6
    <3> QED BY <2>1, <3>2, <3>7 DEF GrowsIn
  <2> QED BY <2>2, <2>3
<1>16. /\ Len(job'.list) = job'.step
       /\ job'.step > 0 => job'.list = out'[UpdateFile(job'.step - 1)].list
  <2>1. job'.step = job.step + 1 /\ job'.list = list
    BY <1>0, <1>1, <1>14, UpdateFields
  <2>2. job'.step - 1 = v
    BY <1>4, <2>1
  <2>3. out'[UpdateFile(v)].list = list
    BY <1>9, <1>12, Zenon
  <2> HIDE DEF list
  <2> QED BY <1>14, <2>1, <2>2, <2>3
<1>17. made'.by = "self"
  BY <1>1, <1>5
<1> HIDE DEF v, u
<1> QED BY <1>12, <1>15, <1>16, <1>17 DEF OutUpdatesInv

\* prover begins with the anchor alone.
LEMMA StartClears ==
  ASSUME ProverStart \/ SelfStart
  PROVE  (\A f \in DOMAIN out' : f = AnchorFile) /\ ~made'.done
<1>1. CASE ProverStart
  <2>1. \A f \in DOMAIN out' : f = AnchorFile
    BY <1>1 DEF ProverStart, Write, Clear, Empty
  <2>2. PICK by, run, n : made' = [by |-> by, run |-> run, size |-> n, done |-> FALSE]
    BY <1>1, Zenon DEF ProverStart
  <2> QED BY <2>1, <2>2
<1>2. CASE SelfStart
  <2>1. \A f \in DOMAIN out' : f = AnchorFile
    BY <1>2 DEF SelfStart, Write, Clear, Empty
  <2>2. PICK by, run, n : made' = [by |-> by, run |-> run, size |-> n, done |-> FALSE]
    BY <1>2, Zenon DEF SelfStart
  <2> QED BY <2>1, <2>2
<1> QED BY <1>1, <1>2

\* An update is added before the canonical record.
LEMMA UpdateAdded ==
  ASSUME IInv, ProveUpdate \/ SelfUpdate
  PROVE  /\ job.by \in Making /\ job.step < job.size /\ made' = made
         /\ DOMAIN out' = DOMAIN out \cup {UpdateFile(job.step)}
<1>1. job.by \in Making /\ job.step < job.size /\ made' = made
  BY DEF ProveUpdate, SelfUpdate, Making, history
<1>2. PICK u : out' = Write(out, UpdateFile(job.step), u)
  BY Zenon DEF ProveUpdate, SelfUpdate
<1>3. DOMAIN out' = DOMAIN out \cup {UpdateFile(job.step)}
  BY <1>2 DEF Write
<1> QED BY <1>1, <1>3

\* One more file, which is no update.
Adds(f) ==
  /\ \A v : f # UpdateFile(v)
  /\ DOMAIN out' = DOMAIN out \cup {f}
  /\ \A g \in DOMAIN out : g # f => out'[g] = out[g]

\* The canonical record is a copy of the last update.
LEMMA CanonicalAdded ==
  ASSUME IInv, WriteCanonical
  PROVE  /\ job.by \in Making /\ job.step = job.size
         /\ Adds(CanonicalFile) /\ out'[CanonicalFile] = out[UpdateFile(job.size - 1)]
         /\ made'.by = made.by /\ made'.run = made.run /\ made'.size = made.size
         /\ IF job.by = "honest-only" THEN job' = NoJob ELSE Steps /\ made' = made
<1>1. /\ job.by \in Making /\ job.step = job.size
      /\ out' = Write(out, CanonicalFile, out[UpdateFile(job.size - 1)])
      /\ IF job.by = "honest-only" THEN job' = NoJob ELSE Steps /\ made' = made
      /\ made' = [made EXCEPT !.done = TRUE] \/ made' = made
  BY DEF WriteCanonical, Making, Ends
<1>2. /\ DOMAIN out' = DOMAIN out \cup {CanonicalFile}
      /\ out'[CanonicalFile] = out[UpdateFile(job.size - 1)]
      /\ \A g \in DOMAIN out : g # CanonicalFile => out'[g] = out[g]
  <2>1. out' = Write(out, CanonicalFile, out[UpdateFile(job.size - 1)])
    BY <1>1
  <2> QED BY <2>1 DEF Write
<1>3. made \in Made
  BY DEF IInv, CoreTypes
<1>4. made'.by = made.by /\ made'.run = made.run /\ made'.size = made.size
  <2>1. made' = [made EXCEPT !.done = TRUE] \/ made' = made
    BY <1>1
  <2> QED BY <1>3, <2>1 DEF Made
<1>5. Adds(CanonicalFile)
  BY <1>2, Files DEF Adds
<1> QED BY <1>1, <1>2, <1>4, <1>5

\* The six controls, each once.
LEMMA ControlsInOrder ==
  /\ \A by, c : c \in Control => \E i \in 1 .. 6 : ControlsOf(by)[i] = c
  /\ \A by : \A i \in 1 .. 6 : ControlsOf(by)[i] = ControlsOf(by)[6] => i = 6
<1>1. \A i \in 1 .. 6 : i = 1 \/ i = 2 \/ i = 3 \/ i = 4 \/ i = 5 \/ i = 6
  OBVIOUS
<1>2. /\ ProverControls[1] = "tampered" /\ ProverControls[2] = "proofbody" /\ ProverControls[3] = "short"
      /\ ProverControls[4] = "slot" /\ ProverControls[5] = "version" /\ ProverControls[6] = "outsider"
  BY DEF ProverControls
<1>3. /\ SelfControls[1] = "tampered" /\ SelfControls[2] = "proofbody" /\ SelfControls[3] = "short"
      /\ SelfControls[4] = "slot" /\ SelfControls[5] = "outsider" /\ SelfControls[6] = "version"
  BY DEF SelfControls
<1>4. \A c \in Control : \/ c = "tampered" \/ c = "proofbody" \/ c = "short"
                         \/ c = "slot" \/ c = "outsider" \/ c = "version"
  BY DEF Control
<1>5. ASSUME NEW by, NEW c \in Control PROVE \E i \in 1 .. 6 : ControlsOf(by)[i] = c
  <2>1. CASE by = "self"
    <3>1. ControlsOf(by) = SelfControls
      BY <2>1 DEF ControlsOf
    <3> QED BY <1>3, <1>4, <3>1
  <2>2. CASE by # "self"
    <3>1. ControlsOf(by) = ProverControls
      BY <2>2 DEF ControlsOf
    <3> QED BY <1>2, <1>4, <3>1
  <2> QED BY <2>1, <2>2
<1>6. ASSUME NEW by, NEW i \in 1 .. 6, ControlsOf(by)[i] = ControlsOf(by)[6] PROVE i = 6
  <2>1. CASE by = "self"
    <3>1. ControlsOf(by) = SelfControls
      BY <2>1 DEF ControlsOf
    <3> QED BY <1>1, <1>3, <1>6, <3>1
  <2>2. CASE by # "self"
    <3>1. ControlsOf(by) = ProverControls
      BY <2>2 DEF ControlsOf
    <3> QED BY <1>1, <1>2, <1>6, <3>1
  <2> QED BY <2>1, <2>2
<1> QED BY <1>5, <1>6

\* A control is added in its turn, and the last one is the end.
LEMMA ControlAdded ==
  ASSUME IInv, ProveControl \/ SelfControl
  PROVE  /\ job.by \in Making /\ job.step > job.size
         /\ made'.by = made.by /\ made'.run = made.run /\ made'.size = made.size
         /\ \/ out' = out /\ job' = NoJob /\ made' = made
            \/ /\ Adds(AttackFile(ControlsOf(job.by)[job.step - job.size]))
               /\ job' = NoJob \/ Steps
               /\ made'.done => job.step = job.size + 6
<1>0. CoreTypes /\ JobInv
  BY DEF IInv
<1>1. job.by \in {"prover", "self"} /\ job.by \in Making /\ job.step > job.size
  BY DEF ProveControl, SelfControl, Making
<1>2. made \in Made
  BY <1>0 DEF CoreTypes
<1>3. job.step \in Nat /\ job.size \in Nat /\ job.step <= job.size + 6
  BY <1>0, <1>1, JobTypes DEF JobInv
<1> DEFINE i == job.step - job.size
           c == ControlsOf(job.by)[i]
           last == c = ControlsOf(job.by)[6]
<1>4. i \in 1 .. 6
  BY <1>1, <1>3
<1>5. last => i = 6
  BY <1>4, ControlsInOrder
<1>6. \/ out' = out /\ job' = NoJob /\ made' = made
      \/ /\ \E rec : out' = Write(out, AttackFile(c), rec)
         /\ job' = NoJob \/ Steps
         /\ made' = [made EXCEPT !.done = last]
  <2>1. CASE ProveControl
    <3>1. job.by = "prover"
      BY <2>1 DEF ProveControl
    <3>2. ControlsOf(job.by) = ProverControls /\ Len(ProverControls) = 6
      BY <3>1 DEF ControlsOf, ProverControls
    <3> QED BY <2>1, <3>2, Zenon DEF ProveControl, Ends
  <2>2. CASE SelfControl
    <3>1. job.by = "self"
      BY <2>2 DEF SelfControl
    <3>2. ControlsOf(job.by) = SelfControls /\ Len(SelfControls) = 6
      BY <3>1 DEF ControlsOf, SelfControls
    <3> QED BY <2>2, <3>2, Zenon DEF SelfControl, Ends
  <2> QED BY <2>1, <2>2
<1> HIDE DEF last, c
<1>7. made' = made \/ made' = [made EXCEPT !.done = last]
  BY <1>6
<1>8. made'.by = made.by /\ made'.run = made.run /\ made'.size = made.size
  BY <1>2, <1>7 DEF Made
<1>9. ASSUME made' = [made EXCEPT !.done = last], made'.done PROVE job.step = job.size + 6
  <2>1. made'.done = last
    BY <1>2, <1>9, Zenon DEF Made
  <2>2. i = 6
    BY <1>5, <1>9, <2>1
  <2> QED BY <1>3, <2>2
<1>10. ASSUME NEW rec, out' = Write(out, AttackFile(c), rec) PROVE Adds(AttackFile(c))
  <2>1. /\ DOMAIN out' = DOMAIN out \cup {AttackFile(c)}
        /\ \A g \in DOMAIN out : g # AttackFile(c) => out'[g] = out[g]
    BY <1>10 DEF Write
  <2> QED BY <2>1, Files DEF Adds
<1> QED BY <1>1, <1>6, <1>8, <1>9, <1>10 DEF c

\* The updates in the artifact directory are those of the quorums.
LEMMA OutUpdatesStep ==
  ASSUME IInv, [Next]_vars, TornInv, CompleteInv
  PROVE  OutUpdatesInv'
<1>0. CoreTypes /\ JobInv /\ OutUpdatesInv
  BY DEF IInv, CompleteInv
<1>1. CASE ProverStart \/ SelfStart
  <2>1. \A v : UpdateFile(v) \notin DOMAIN out'
    BY <1>1, StartClears, Files
  <2>2. ASSUME job'.by = "self"
        PROVE  /\ Len(job'.list) = job'.step
               /\ job'.step > 0 => job'.list = out'[UpdateFile(job'.step - 1)].list
    <3>1. job' # NoJob
      BY <2>2, NoJobFields
    <3>2. job'.step = 0 /\ job'.list = <<>>
      BY <1>1, <2>2, <3>1, JobChanges
    <3> QED BY <3>2
  <2> QED BY <2>1, <2>2 DEF OutUpdatesInv, OutUpdateIn, SameListIn, GrowsIn
<1>2. CASE ProveUpdate
  BY <1>2, ProvedInTurn
<1>3. CASE SelfUpdate
  BY <1>3, GrownInTurn
<1>4. ASSUME ~ProverStart, ~SelfStart, ~TornOutAnchor, NEW f, Adds(f), made'.by = made.by, made'.run = made.run,
             cut' = cut, job'.by = "self" /\ job'.step <= job'.size => job' = job
      PROVE  OutUpdatesInv'
  <2>1. \A v : f # UpdateFile(v)
    BY <1>4 DEF Adds
  <2>2. DOMAIN out \subseteq DOMAIN out'
    BY <1>4 DEF Adds
  <2>3. \A g \in DOMAIN out' : g # f => g \in DOMAIN out /\ out'[g] = out[g]
    BY <1>4 DEF Adds
  <2> QED BY <1>0, <1>4, <2>1, <2>2, <2>3, UpdatesStay
<1>5. CASE ~ProverStart /\ ~SelfStart /\ (WriteCanonical \/ ProveControl \/ SelfControl)
  <2>5. cut' = cut /\ ~TornOutAnchor
    BY <1>5 DEF WriteCanonical, ProveControl, SelfControl, TornOutAnchor, Idle
  <2>1. job.by \in Making /\ job.step >= job.size /\ made'.by = made.by /\ made'.run = made.run
        /\ (job' = NoJob \/ Steps)
        /\ (out' = out \/ \E f : Adds(f))
    <3>1. job.step \in Nat /\ job.size \in Nat
      BY <1>0, JobTypes
    <3>2. CASE WriteCanonical
      BY <3>1, <3>2, CanonicalAdded
    <3>3. CASE ProveControl \/ SelfControl
      BY <3>1, <3>3, ControlAdded
    <3> QED BY <1>5, <3>2, <3>3
  <2>2. ~(job'.by = "self" /\ job'.step <= job'.size)
    <3>1. CASE job' = NoJob
      BY <3>1, NoJobFields
    <3>2. CASE Steps
      <4>1. job'.step = job.step + 1 /\ job'.size = job.size /\ job.step \in Nat /\ job.size \in Nat
        BY <1>0, <3>2, StepFields, JobTypes
      <4> QED BY <2>1, <4>1
    <3> QED BY <2>1, <3>1, <3>2
  <2>3. CASE out' = out
    BY <1>0, <1>5, <2>1, <2>2, <2>3, <2>5, UpdatesStay, Files
  <2>4. CASE \E f : Adds(f)
    BY <1>4, <1>5, <2>1, <2>2, <2>4, <2>5
  <2> QED BY <2>1, <2>3, <2>4
<1>7. CASE TornOutAnchor \/ PartlyClearedOut
  <2>1. job'.by # "self"
    BY <1>7, WhatIsLeft DEF Interrupted, Idle
  <2>2. DOMAIN out' = {} \/ "out" \in cut'
    BY <1>7 DEF TornOutAnchor, PartlyClearedOut, Clear, Empty
  <2> QED BY <2>1, <2>2 DEF OutUpdatesInv, OutUpdateIn, SameListIn, GrowsIn
<1>6. CASE ~OutSteps
  <2>1. out' = out /\ made' = made /\ (job'.by \in Making => job' = job) /\ ("out" \in cut => "out" \in cut')
    BY <1>6, OutUntouched
  <2>2. job'.by = "self" => job' = job
    BY <2>1 DEF Making
  <2>3. ~ProverStart /\ ~SelfStart /\ ~TornOutAnchor
    BY <1>6 DEF OutSteps
  <2> QED BY <1>0, <2>1, <2>2, <2>3, UpdatesStay, Files
<1> QED BY <1>1, <1>2, <1>3, <1>5, <1>6, <1>7 DEF OutSteps

\* The canonical record and the controls are there as far as the program has got, all
\* of them when it has come to its end, and the canonical record is the last update.
LEMMA OutProgressStep ==
  ASSUME IInv, [Next]_vars, TornInv, OutProgress
  PROVE  OutProgress'
<1>0. CoreTypes /\ JobInv /\ OutInv /\ ProgressInv
  BY DEF IInv
<1>1. job.step \in Nat /\ job.size \in Nat
  BY <1>0, JobTypes
<1>2. job.by \in Making =>
        /\ made.by = job.by /\ made.size = job.size /\ ~made.done /\ job.size \in Updates
        /\ AnchorFile \in DOMAIN out
  BY <1>0 DEF JobInv, Making, Idle
<1>3. CASE ProverStart \/ SelfStart
  <2>1. (\A f \in DOMAIN out' : f = AnchorFile) /\ ~made'.done
    BY <1>3, StartClears
  <2>2. CanonicalFile \notin DOMAIN out'
    BY <2>1, Files
  <2>3. ASSUME job'.by \in Making PROVE ~(job'.step > job'.size)
    <3>1. job' # NoJob
      BY <2>3, NoJobFields DEF Making
    <3>2. job'.step = 0
      BY <1>3, <3>1, JobChanges
    <3>3. job'.size \in Nat
      <4>1. CoreTypes'
        BY StepInv DEF IInv
      <4>2. job'.size \in Updates \cup {0}
        BY <4>1 DEF CoreTypes, Job
      <4>3. Updates \cup {0} \subseteq Nat
        BY Params
      <4> QED BY <4>2, <4>3
    <3> QED BY <3>2, <3>3
  <2> QED BY <2>1, <2>2, <2>3 DEF OutProgress
<1>4. CASE ProveUpdate \/ SelfUpdate
  <2>1. /\ job.by \in Making /\ job.step < job.size /\ made' = made
        /\ DOMAIN out' = DOMAIN out \cup {UpdateFile(job.step)}
    BY <1>4, UpdateAdded
  <2>2. CanonicalFile \notin DOMAIN out'
    <3>1. CanonicalFile \notin DOMAIN out
      BY <1>0, <1>1, <2>1 DEF ProgressInv
    <3> QED BY <2>1, <3>1, Files
  <2>3. ~made'.done
    BY <1>2, <2>1
  <2>4. ~(job'.by \in Making /\ job'.step > job'.size)
    <3>1. ~(FixtureStart \/ ProverStart \/ SelfStart \/ MemoryStart)
      BY <2>1 DEF FixtureStart, ProverStart, SelfStart, MemoryStart, Idle, Making
    <3>2. job' = job \/ job' = NoJob \/ GoesOn
      BY <3>1, JobChanges
    <3> QED BY <1>1, <2>1, <3>2, NoJobFields DEF GoesOn, Making
  <2>5. AnchorFile \in DOMAIN out'
    BY <1>2, <2>1
  <2> QED BY <2>2, <2>3, <2>4, <2>5 DEF OutProgress
<1>5. CASE WriteCanonical
  <2>1. /\ job.by \in Making /\ job.step = job.size
        /\ Adds(CanonicalFile) /\ out'[CanonicalFile] = out[UpdateFile(job.size - 1)]
        /\ made'.by = made.by /\ made'.size = made.size
        /\ IF job.by = "honest-only" THEN job' = NoJob ELSE Steps /\ made' = made
    BY <1>5, CanonicalAdded
  <2>2. /\ CanonicalFile \in DOMAIN out'
        /\ \A g \in DOMAIN out : g # CanonicalFile => out'[g] = out[g]
    BY <2>1 DEF Adds
  <2>3. ASSUME job'.by \in Making, job'.step > job'.size, NEW i \in 1 .. 6 PROVE ~(i < job'.step - job'.size)
    <3>1. Steps
      BY <2>1, <2>3, NoJobFields DEF Making
    <3>2. job'.step = job.step + 1 /\ job'.size = job.size
      BY <1>0, <3>1, StepFields
    <3> QED BY <1>1, <2>1, <3>2
  <2>4. made'.done => made'.by = "honest-only"
    BY <1>2, <2>1
  <2>5. out'[CanonicalFile] = out'[UpdateFile(made'.size - 1)]
    <3>1. job.size - 1 \in Version /\ job.size - 1 < job.size /\ job.size - 1 < job.step
      BY <1>2, <2>1, Versions
    <3>2. UpdateFile(job.size - 1) \in DOMAIN out
      BY <1>0, <2>1, <3>1 DEF ProgressInv
    <3>3. UpdateFile(job.size - 1) # CanonicalFile
      BY Files
    <3>4. made'.size = job.size
      BY <1>2, <2>1
    <3> QED BY <2>1, <2>2, <3>2, <3>3, <3>4
  <2>6. AnchorFile \in DOMAIN out'
    BY <1>2, <2>1 DEF Adds
  <2> QED BY <2>2, <2>3, <2>4, <2>5, <2>6 DEF OutProgress
<1>6. CASE ProveControl \/ SelfControl
  <2> DEFINE by == job.by
             k == job.step - job.size
             f == AttackFile(ControlsOf(by)[k])
  <2>1. /\ by \in Making /\ job.step > job.size
        /\ made'.by = made.by /\ made'.size = made.size
        /\ \/ out' = out /\ job' = NoJob /\ made' = made
           \/ /\ Adds(f)
              /\ job' = NoJob \/ Steps
              /\ made'.done => job.step = job.size + 6
    BY <1>6, ControlAdded
  <2>2. /\ CanonicalFile \in DOMAIN out
        /\ \A i \in 1 .. 6 : i < k => AttackFile(ControlsOf(by)[i]) \in DOMAIN out
    BY <2>1 DEF OutProgress
  <2>7. cut' = cut /\ AnchorFile \in DOMAIN out
    BY <1>2, <1>6, <2>1 DEF ProveControl, SelfControl
  <2>3. "out" \notin cut => out[CanonicalFile] = out[UpdateFile(made.size - 1)]
    BY <2>2 DEF OutProgress
  <2>4. "out" \notin cut => UpdateFile(made.size - 1) \in DOMAIN out
    <3>1. made.size - 1 \in Version /\ made.size - 1 < made.size
      BY <1>2, <2>1, Versions
    <3>2. "out" \notin cut => HasUpdates(out, made.size)
      BY <2>2 DEF TornInv
    <3> QED BY <3>1, <3>2 DEF HasUpdates
  <2>5. CASE out' = out /\ job' = NoJob /\ made' = made
    BY <1>2, <2>1, <2>2, <2>3, <2>5, <2>7, NoJobFields DEF OutProgress, Making
  <2>6. CASE Adds(f) /\ (job' = NoJob \/ Steps) /\ (made'.done => job.step = job.size + 6)
    <3>1. /\ \A v : f # UpdateFile(v)
          /\ DOMAIN out' = DOMAIN out \cup {f}
          /\ \A g \in DOMAIN out : g # f => out'[g] = out[g]
      BY <2>6 DEF Adds
    <3>2. f # CanonicalFile
      BY Files
    <3>3. k \in Int /\ k > 0
      BY <1>1, <2>1
    <3>4. /\ CanonicalFile \in DOMAIN out' /\ AnchorFile \in DOMAIN out'
          /\ "out" \notin cut => out'[CanonicalFile] = out'[UpdateFile(made'.size - 1)]
      <4> HIDE DEF f
      <4> QED BY <2>1, <2>2, <2>3, <2>4, <2>7, <3>1, <3>2
    <3>5. \A i \in 1 .. 6 : i <= k => AttackFile(ControlsOf(by)[i]) \in DOMAIN out'
      <4> SUFFICES ASSUME NEW i \in 1 .. 6, i <= k PROVE AttackFile(ControlsOf(by)[i]) \in DOMAIN out'
        OBVIOUS
      <4>1. CASE i = k
        <5>1. AttackFile(ControlsOf(by)[i]) = f
          BY <4>1
        <5> HIDE DEF f
        <5> QED BY <3>1, <5>1
      <4>2. CASE i # k
        <5>1. i < k
          BY <3>3, <4>2
        <5> HIDE DEF f
        <5> QED BY <2>2, <3>1, <5>1
      <4> QED BY <4>1, <4>2
    <3>6. ASSUME made'.done, NEW c \in Control PROVE AttackFile(c) \in DOMAIN out'
      <4>1. job.step = job.size + 6
        BY <2>6, <3>6
      <4>2. \A i \in 1 .. 6 : i <= k
        BY <1>1, <4>1
      <4>3. PICK i \in 1 .. 6 : ControlsOf(by)[i] = c
        BY ControlsInOrder
      <4> QED BY <3>5, <4>2, <4>3
    <3>7. ASSUME job'.by \in Making, job'.step > job'.size, NEW i \in 1 .. 6, i < job'.step - job'.size
          PROVE  AttackFile(ControlsOf(job'.by)[i]) \in DOMAIN out'
      <4>1. Steps
        BY <2>6, <3>7, NoJobFields DEF Making
      <4>2. job'.by = job.by /\ job'.step = job.step + 1 /\ job'.size = job.size
        BY <1>0, <4>1, StepFields
      <4>3. i <= k
        BY <1>1, <3>7, <4>2
      <4> HIDE DEF k
      <4> QED BY <3>5, <4>2, <4>3
    <3> HIDE DEF f, k
    <3> QED BY <2>7, <3>4, <3>6, <3>7 DEF OutProgress
  <2> QED BY <2>1, <2>5, <2>6
<1>7. CASE ~OutSteps
  <2>1. out' = out /\ made' = made /\ (job'.by \in Making => job' = job) /\ ("out" \in cut => "out" \in cut')
    BY <1>7, OutUntouched
  <2> QED BY <2>1 DEF OutProgress
<1>8. CASE TornOutAnchor \/ PartlyClearedOut
  <2>1. job'.by \notin Making
    BY <1>8, WhatIsLeft DEF Interrupted, Idle, Making
  <2>2. "out" \in cut' \/ (DOMAIN out' = {} /\ ~made'.done)
    BY <1>8 DEF TornOutAnchor, PartlyClearedOut, Clear, Empty, Nothing
  <2> QED BY <2>1, <2>2 DEF OutProgress
<1> QED BY <1>3, <1>4, <1>5, <1>6, <1>7, <1>8 DEF OutSteps

\* The demo has the signatures of the update that it checks.
LEMMA DemoUpdateSigned ==
  ASSUME IInv, [Next]_vars, DemoUpdateInv
  PROVE  DemoUpdateInv'
<1>0. CoreTypes /\ JobInv
  BY DEF IInv
<1>1. job.step \in Nat /\ job.size \in Nat
  BY <1>0, JobTypes
<1> SUFFICES ASSUME job'.by = "demo", job'.step \in 1 .. job'.size
             PROVE  UpdateSignatures(job.list, job.step - 1)' \subseteq signed'
  BY DEF DemoUpdateInv
<1>2. signed \subseteq signed'
  <2>1. ~Kill
    BY NoJobFields DEF Kill, Ends
  <2>2. CASE Interrupted
    BY <2>2, WhatIsLeft
  <2>3. CASE ~Interrupted
    <3>1. signed' = signed \/ \E new : Sign(new)
      BY <2>1, <2>3 DEF Next, vars, FixtureStart, FixtureUpdate, FixtureControl, FixtureOutsiderAnchor,
          FixtureOutsider, ProverStart, ProveUpdate, WriteCanonical, ProveControl, SelfStart, SelfUpdate,
          SelfControl, MemoryStart, DemoUpdate, DemoControl, RawUpdate, RawControlSigned, SignAt,
          InitState, Verify, VerifyRefused, NewMarkPath, TornWrite, Interrupted
    <3> QED BY <3>1 DEF Sign
  <2> QED BY <2>2, <2>3
<1>3. CASE job' = job
  <2>1. UpdateSignatures(job.list, job.step - 1) \subseteq signed
    BY <1>3 DEF DemoUpdateInv
  <2> QED BY <1>2, <1>3, <2>1 DEF UpdateSignatures
<1>4. CASE job' # job
  <2>1. job' # NoJob /\ ~(job'.step = 0)
    BY NoJobFields
  <2>2. GoesOn
    <3>1. ~(FixtureStart \/ ProverStart \/ SelfStart \/ MemoryStart)
      BY <2>1, JobChanges
    <3> QED BY <1>4, <2>1, <3>1, JobChanges
  <2>3. DemoUpdate \/ DemoControl
    BY <1>4, <2>1, <2>2, WhoSteps DEF GoesOn, Idle
  <2>4. job.step < job.size
    BY <1>1, <2>2 DEF GoesOn
  <2>5. DemoUpdate
    BY <1>1, <2>3, <2>4 DEF DemoControl, DemoControls
  <2>6. Sign(UpdateSignatures(NextList, job.step)) /\ job' = [job EXCEPT !.step = @ + 1, !.list = NextList]
    BY <2>5, Zenon DEF DemoUpdate
  <2>7. job.run \in Run
    BY <1>0, <2>2 DEF JobInv, Idle, GoesOn
  <2>8. job'.list = NextList
    BY <1>0, <2>6, <2>7, NextListType, UpdateFields
  <2>9. job'.run = job.run /\ job'.step - 1 = job.step
    BY <1>1, <2>2 DEF GoesOn
  <2>10. UpdateSignatures(NextList, job.step) \subseteq signed'
    BY <2>6 DEF Sign
  <2> QED BY <2>8, <2>9, <2>10, Zenon DEF UpdateSignatures
<1> QED BY <1>3, <1>4

\* What the programs have completed, as an invariant.
LEMMA CompleteInductive == Spec => []CompleteInv
<1>1. Init => CompleteInv
  <2> SUFFICES ASSUME Init PROVE CompleteInv
    OBVIOUS
  <2>1. DOMAIN fixture = {} /\ DOMAIN out = {} /\ job.by = "none"
    BY NoJobFields DEF Init, Empty
  <2>2. ~prepared.done /\ ~made.done
    BY DEF Init, Nothing
  <2>3. FixtureCompleteInv
    BY <2>1, <2>2 DEF FixtureCompleteInv, FixtureUpdateIn, FixtureProgress
  <2>4. OutUpdatesInv
    BY <2>1 DEF OutUpdatesInv, OutUpdateIn, SameListIn, GrowsIn
  <2>5. OutProgress /\ DemoUpdateInv
    BY <2>1, <2>2 DEF OutProgress, DemoUpdateInv, Making
  <2>6. FixtureWhole
    BY <2>1 DEF Init, FixtureWhole, FixtureNames
  <2> QED BY <2>3, <2>4, <2>5, <2>6 DEF CompleteInv
<1>2. IInv /\ TornInv /\ CompleteInv /\ [Next]_vars => CompleteInv'
  <2> SUFFICES ASSUME IInv, TornInv, CompleteInv, [Next]_vars PROVE CompleteInv'
    OBVIOUS
  <2>1. FixtureCompleteInv /\ FixtureProgress /\ FixtureWhole /\ OutProgress /\ DemoUpdateInv
    BY DEF CompleteInv, FixtureCompleteInv
  <2> QED BY <2>1, FixtureCompleteStep, FixtureWholeStep, OutUpdatesStep, OutProgressStep, DemoUpdateSigned DEF CompleteInv
<1> QED BY <1>1, <1>2, Inductive, TornInductive, PTL DEF Spec

-----------------------------------------------------------------------------
(* The gates                                                               *)

\* A record that verifier accepts passes every check.
LEMMA AuthenticPasses ==
  ASSUME NEW a, NEW r, Authentic(a, r)
  PROVE  \A x \in 1 .. 5 : x \in Passed(a, r)
<1> DEFINE agg == r.proof
           signers == V!XmssSigners(agg)
           group == CHOOSE g \in signers : TRUE
<1>1. r.tag = V!WotsXmss
  BY DEF Authentic, V!SnarkDecodes
<1>2. /\ \E g \in signers : /\ signers = {g}
                            /\ V!PubKeys(agg) \subseteq V!MembersOf(a)
                            /\ g.message = V!MessageFor(a, r.tag, r.list, r.version)
                            /\ V!SlotFor(a, r.version) = g.slot
      /\ V!Cardinality(V!PubKeys(agg)) >= a.t
      /\ V!AggregateVerifies(agg)
  BY Zenon DEF Authentic, V!Check
<1>3. PICK g \in signers : /\ signers = {g}
                           /\ V!PubKeys(agg) \subseteq V!MembersOf(a)
                           /\ g.message = V!MessageFor(a, r.tag, r.list, r.version)
                           /\ V!SlotFor(a, r.version) = g.slot
  BY <1>2
<1>4. group = g
  <2> HIDE DEF signers
  <2> QED BY <1>3
<1>5. /\ V!PubKeys(agg) \subseteq V!MembersOf(a)
      /\ group.message = Message(a, r.list, r.version)
      /\ group.slot = V!SlotFor(a, r.version)
      /\ Cardinality(V!PubKeys(agg)) >= a.t
      /\ V!AggregateVerifies(agg)
  <2>1. group.message = Message(a, r.list, r.version)
    BY <1>1, <1>3, <1>4, Zenon DEF Message
  <2>2. group.slot = V!SlotFor(a, r.version)
    BY <1>3, <1>4, Zenon
  <2>3. Cardinality(V!PubKeys(agg)) >= a.t
    BY <1>2, SameCardinality
  <2> QED BY <1>2, <1>3, <2>1, <2>2, <2>3, Zenon
<1>6. Passed(a, r) = {1} \cup {2} \cup {3} \cup {4} \cup {5}
  BY <1>5, Zenon DEF Passed
<1> QED BY <1>6

\* A control that is well made is not accepted.
LEMMA ControlRefused ==
  ASSUME NEW a, NEW c \in Control, NEW r, WellMade(a, c, r), r.proof.claims \subseteq signed
  PROVE  ~Authentic(a, r)
<1>1. Passed(a, r) = 1 .. 5 \ {OwnCheck[c]}
  BY FailsItsOwn
<1>2. OwnCheck[c] \in 1 .. 5
  BY DEF OwnCheck, Control
<1> QED BY <1>1, <1>2, AuthenticPasses

\* The updates in the artifact directory are authentic, each at its version.
LEMMA OutUpdateAuthentic ==
  ASSUME IInv, CompleteInv, "out" \notin cut, NEW v \in Version, UpdateFile(v) \in DOMAIN out
  PROVE  /\ Authentic(Anchor(made.run), out[UpdateFile(v)])
         /\ out[UpdateFile(v)].version = v
         /\ V!PubKeys(out[UpdateFile(v)].proof) = {Anchor(made.run).members[i + 1] : i \in QuorumOf(made.by, v)}
<1> DEFINE u == out[UpdateFile(v)]
           I == QuorumOf(made.by, v)
           list == u.list
<1>1. u = ProvedUpdate(made.run, I, list, v) /\ QuorumSignatures(made.run, I, list, v) \subseteq signed
  <2>1. OutUpdateIn(out, made.run, made.by, signed, v)
    BY DEF CompleteInv, OutUpdatesInv
  <2> QED BY <2>1, Zenon DEF OutUpdateIn
<1>2. IsQuorum(I)
  <2>1. made.size \in Updates
    BY DEF IInv, OutInv
  <2>2. v \in Nat
    BY Versions
  <2> QED BY <2>1, <2>2, AreQuorums DEF QuorumOf
<1>3. ProvedIs(made.run, I, list, v, u)
  <2> HIDE DEF u, I, list
  <2> QED BY <1>1, <1>2, ProvedFacts
<1> QED BY <1>1, <1>3, Zenon DEF ProvedIs

\* The artifact directory of a run that came to its end: nothing is torn, the anchor
\* and the updates are there.
LEMMA OutIsWhole ==
  ASSUME IInv, TornInv, CompleteInv, made.done, "out" \notin cut
  PROVE  /\ outTorn = {} /\ {AnchorFile, CanonicalFile} \subseteq DOMAIN out
         /\ out[AnchorFile] = Anchor(made.run) /\ made.size \in Updates
         /\ HasUpdates(out, made.size)
         /\ out[CanonicalFile] = out[UpdateFile(made.size - 1)]
<1>1. CanonicalFile \in DOMAIN out /\ out[CanonicalFile] = out[UpdateFile(made.size - 1)]
  BY DEF CompleteInv, OutProgress
<1>2. AnchorFile \in DOMAIN out
  BY <1>1 DEF CompleteInv, OutProgress
<1>3. outTorn = {} /\ HasUpdates(out, made.size)
  BY <1>1 DEF TornInv
<1>4. out[AnchorFile] = Anchor(made.run) /\ made.size \in Updates
  BY <1>1, <1>2 DEF IInv, OutInv
<1> QED BY <1>1, <1>2, <1>3, <1>4

\* verifier passes on what prover has written to its end.
LEMMA VerifierGate ==
  ASSUME IInv, TornInv, ControlsInv, CompleteInv, made.done, made.by # "honest-only", "out" \notin cut,
         NEW m \in mark, m.anchor = out[AnchorFile]
  PROVE  VerifierPasses(out, m)
<1>0. CoreTypes /\ OutInv /\ OutProgress
  BY DEF IInv, CompleteInv
<1>1. /\ CanonicalFile \in DOMAIN out
      /\ \A c \in Control : AttackFile(c) \in DOMAIN out
      /\ out[CanonicalFile] = out[UpdateFile(made.size - 1)]
  BY <1>0 DEF OutProgress
<1>2. /\ out[AnchorFile] = Anchor(made.run) /\ made.size \in Updates
      /\ HasUpdates(out, made.size) /\ outTorn = {}
      /\ \A v \in Version : UpdateFile(v) \in DOMAIN out => out[UpdateFile(v)].version = v
  BY OutIsWhole, OutUpdateAuthentic
<1>3. m.anchor = Anchor(made.run)
  BY <1>2
<1>4. \A v \in Version : UpdateFile(v) \in DOMAIN out => Authentic(m.anchor, out[UpdateFile(v)])
  BY <1>3, OutUpdateAuthentic
<1>5. Missing(DOMAIN out \cup outTorn) = {}
  BY <1>1 DEF Missing
<1>6. ASSUME NEW c \in Control PROVE ~Authentic(m.anchor, out[AttackFile(c)])
  <2>1. OutControlIn(out, made.run, signed, c)
    BY DEF ControlsInv, OutControlsInv
  <2>2. /\ WellMade(Anchor(made.run), c, out[AttackFile(c)])
        /\ out[AttackFile(c)].proof.claims \subseteq signed
    BY <1>1, <2>1 DEF OutControlIn
  <2> QED BY <1>3, <2>2, ControlRefused
<1>7. /\ made.size - 1 \in Version /\ made.size - 1 \in Nat /\ made.size - 1 < made.size
      /\ 0 \in Version /\ Version \subseteq Nat /\ made.size \in Nat /\ made.size # 0
  BY <1>2, Versions, Params
<1>8. UpdateFile(made.size - 1) \in DOMAIN out /\ UpdateFile(0) \in DOMAIN out
  BY <1>2, <1>7 DEF HasUpdates
<1>9. Authentic(m.anchor, out[CanonicalFile])
  <2>1. Authentic(m.anchor, out[UpdateFile(made.size - 1)])
    BY <1>4, <1>7, <1>8
  <2> QED BY <1>1, <2>1
<1>10. 0 \in Replayed(out, m)
  <2>1. Authentic(m.anchor, out[UpdateFile(0)])
    BY <1>4, <1>7, <1>8
  <2>2. \A w \in Version : 0 <= w
    BY <1>7
  <2> QED BY <1>7, <1>8, <2>1, <2>2 DEF Replayed, UpdatesIn
<1>11. MarkAfter(out, m).version \in Nat
  <2>1. m.version \in {-1} \cup Version /\ m \in Mark
    BY <1>0 DEF CoreTypes, Mark
  <2> DEFINE top == out[CanonicalFile].version
  <2>2. top \in Nat
    BY <1>1, <1>2, <1>7, <1>8
  <2>3. CASE top > m.version
    <3>1. MarkAfter(out, m) = [m EXCEPT !.version = top]
      BY <1>1, <1>9, <2>3, Zenon DEF MarkAfter
    <3> HIDE DEF top
    <3>2. MarkAfter(out, m).version = top
      BY <2>1, <3>1 DEF Mark
    <3> QED BY <2>2, <3>2
  <2>4. CASE ~(top > m.version)
    <3>1. MarkAfter(out, m) = m
      BY <2>4, Zenon DEF MarkAfter
    <3>2. m.version \in Int
      <4>1. -1 \in Int /\ \A v \in Version : v \in Int
        BY <1>7
      <4> QED BY <2>1, <4>1, Zenon
    <3> HIDE DEF top
    <3>3. m.version \in Nat
      BY <2>2, <2>4, <3>2
    <3> QED BY <3>1, <3>3
  <2> QED BY <2>3, <2>4
<1>12. RollbackRefused(out, m)
  <2>1. out[UpdateFile(0)].version = 0
    BY <1>2, <1>7, <1>8
  <2>2. MarkAfter(out, m).version # -1 /\ 0 <= MarkAfter(out, m).version
    BY <1>11
  <2>3. out[UpdateFile(0)].version <= MarkAfter(out, m).version
    BY <2>1, <2>2
  <2> QED BY <1>10, <2>2, <2>3, Zenon DEF RollbackRefused
<1> QED BY <1>1, <1>2, <1>4, <1>5, <1>6, <1>9, <1>12 DEF VerifierPasses

\* check_prover_output passes on what prover has written to its end without controls,
\* over the fixture that is still there, and on what it has written by itself, as long
\* as the verifier has left nothing beside it.
LEMMA OutputGate ==
  ASSUME IInv, TornInv, CompleteInv, made.done, "out" \notin cut, ~locked, NEW against \in BOOLEAN,
         against => made.by = "honest-only" /\ made.run = prepared.run /\ cut = {}, ~against => made.by = "self"
  PROVE  OutputPasses(out, made.size, against)
<1>0. CoreTypes /\ OutInv /\ OutProgress /\ OutUpdatesInv /\ FixtureInv
  BY DEF IInv, CompleteInv
<1>1. /\ CanonicalFile \in DOMAIN out
      /\ out[CanonicalFile] = out[UpdateFile(made.size - 1)]
  BY <1>0 DEF OutProgress
<1>2. /\ AnchorFile \in DOMAIN out /\ out[AnchorFile] = Anchor(made.run) /\ made.size \in Updates
      /\ HasUpdates(out, made.size) /\ DOMAIN out \subseteq OutFiles /\ outTorn = {}
      /\ \A v \in Version : UpdateFile(v) \in DOMAIN out => out[UpdateFile(v)].version = v /\ v < made.size
  BY <1>0, OutIsWhole, OutUpdateAuthentic DEF OutInv
<1>3. made.size \in Nat /\ made.size # 0 /\ Version \subseteq Nat
      /\ \A v \in 0 .. made.size - 1 : v \in Version /\ v < made.size
  <2>1. made.size \in Nat /\ made.size # 0 /\ Version \subseteq Nat
    BY <1>2, Params, Versions
  <2>2. \A v \in 0 .. made.size - 1 : v \in Nat /\ v < made.size
    BY <2>1
  <2> QED BY <1>2, <2>1, <2>2, Versions
<1>4. \A v \in 0 .. made.size - 1 : UpdateFile(v) \in DOMAIN out
  BY <1>2, <1>3 DEF HasUpdates
<1>5. {f \in DOMAIN out \cup outTorn : against \/ f[1] # "attack"} =
        {AnchorFile, CanonicalFile} \cup {UpdateFile(v) : v \in 0 .. made.size - 1}
  <2>1. ASSUME NEW f \in DOMAIN out, against \/ f[1] # "attack"
        PROVE  f \in {AnchorFile, CanonicalFile} \cup {UpdateFile(v) : v \in 0 .. made.size - 1}
    <3>1. \A c \in Control : f # AttackFile(c)
      <4>1. CASE against
        BY <1>0, <4>1 DEF OutInv
      <4>2. CASE f[1] # "attack"
        BY <4>2 DEF AttackFile
      <4> QED BY <2>1, <4>1, <4>2
    <3>2. f \in {AnchorFile, CanonicalFile} \cup {UpdateFile(v) : v \in Version}
      BY <1>2, <3>1 DEF OutFiles
    <3>3. ASSUME NEW v \in Version, f = UpdateFile(v) PROVE v \in 0 .. made.size - 1
      BY <1>2, <1>3, <3>3
    <3> QED BY <3>2, <3>3
  <2>2. ASSUME NEW f \in {AnchorFile, CanonicalFile} \cup {UpdateFile(v) : v \in 0 .. made.size - 1}
        PROVE  f \in DOMAIN out /\ f[1] # "attack"
    <3>1. f \in DOMAIN out
      BY <1>1, <1>2, <1>4, <2>2
    <3>2. f[1] # "attack"
      <4>1. AnchorFile[1] # "attack" /\ CanonicalFile[1] # "attack"
        BY DEF AnchorFile, CanonicalFile
      <4>2. \A v : UpdateFile(v)[1] # "attack"
        BY DEF UpdateFile
      <4> QED BY <2>2, <4>1, <4>2
    <3> QED BY <3>1, <3>2
  <2> QED BY <1>2, <2>1, <2>2
<1>6. ASSUME NEW v \in 0 .. made.size - 1, against
      PROVE  /\ UpdateFile(v) \in DOMAIN fixture
             /\ out[UpdateFile(v)].list = fixture[UpdateFile(v)].list
             /\ fixture[UpdateFile(v)].version = v
             /\ fixture[UpdateFile(v)].bits = Quorum(v)
  <2>1. SameListIn(out, fixture, v)
    BY <1>0, <1>3, <1>6 DEF OutUpdatesInv
  <2>2. UpdateFile(v) \in DOMAIN fixture /\ out[UpdateFile(v)].list = fixture[UpdateFile(v)].list
    BY <1>4, <2>1 DEF SameListIn
  <2> DEFINE r == fixture[UpdateFile(v)]
             l == r.list
  <2>3. r = Raw(l, v, QuorumSignatures(prepared.run, Quorum(v), l, v))
    <3>1. FixtureUpdateIn(fixture, prepared.run, signed, v)
      BY <1>3 DEF CompleteInv, FixtureCompleteInv
    <3> QED BY <2>2, <3>1, Zenon DEF FixtureUpdateIn
  <2>4. IsQuorum(Quorum(v))
    BY <1>2, <1>3, AreQuorums
  <2>5. UpdateIs(prepared.run, Quorum(v), l, v, r)
    <3> HIDE DEF r, l
    <3> QED BY <2>3, <2>4, UpdateOfQuorum
  <2> QED BY <2>2, <2>5, Zenon DEF UpdateIs
<1>7. against => AnchorFile \in DOMAIN fixture /\ out[AnchorFile] = fixture[AnchorFile]
  <2> SUFFICES ASSUME against PROVE AnchorFile \in DOMAIN fixture /\ out[AnchorFile] = fixture[AnchorFile]
    OBVIOUS
  <2>1. 0 \in 0 .. made.size - 1
    BY <1>3
  <2>2. DOMAIN fixture # {}
    BY <1>6, <2>1
  <2>3. AnchorFile \in DOMAIN fixture /\ fixture[AnchorFile] = Anchor(prepared.run)
    BY <1>0, <2>2 DEF FixtureInv, CompleteInv, FixtureWhole
  <2> QED BY <1>2, <2>3
<1>8. ASSUME NEW v \in 0 .. made.size - 1 PROVE UpdateAsExpected(out, v, against)
  <2> DEFINE u == out[UpdateFile(v)]
             raw == fixture[UpdateFile(v)]
  <2>1. UpdateFile(v) \in DOMAIN out /\ u.version = v
    BY <1>2, <1>3, <1>4
  <2>2. /\ Authentic(out[AnchorFile], u)
        /\ V!PubKeys(u.proof) = {out[AnchorFile].members[i + 1] : i \in QuorumOf(made.by, v)}
    BY <1>2, <1>3, <2>1, OutUpdateAuthentic
  <2>3. CASE against
    <3>1. QuorumOf(made.by, v) = raw.bits
      BY <1>6, <2>3 DEF QuorumOf
    <3>2. UpdateFile(v) \in DOMAIN fixture /\ u.list = raw.list /\ u.version = raw.version
      BY <1>6, <2>1, <2>3
    <3>3. V!PubKeys(u.proof) = {out[AnchorFile].members[i + 1] : i \in raw.bits}
      BY <2>2, <3>1, Zenon
    <3> QED BY <2>1, <2>2, <2>3, <3>2, <3>3, Zenon DEF UpdateAsExpected
  <2>4. CASE ~against
    <3>1. GrowsIn(out, v)
      BY <1>0, <1>3, <2>4 DEF OutUpdatesInv
    <3>2. Len(u.list) = v + 1 /\ (v > 0 => SubSeq(u.list, 1, v) = out[UpdateFile(v - 1)].list)
      BY <2>1, <3>1, Zenon DEF GrowsIn
    <3> QED BY <2>1, <2>2, <2>4, <3>2, Zenon DEF UpdateAsExpected
  <2> QED BY <2>3, <2>4
<1>9. {AnchorFile, CanonicalFile} \subseteq DOMAIN out
  BY <1>1, <1>2
<1> QED BY <1>1, <1>5, <1>7, <1>8, <1>9, Zenon DEF OutputPasses

\* The slot of a published version is within the keys' window.
LEMMA UpdateSlots ==
  ASSUME NEW run, NEW n \in Updates, NEW v \in 0 .. n
  PROVE  V!SlotFor(Anchor(run), v) # V!NoSlot
<1>1. n \in Nat /\ KeySlots \in Nat /\ n + 1 < KeySlots
  BY Params
<1>2. v \in Nat /\ v <= KeySlots + 1
  BY <1>1
<1> QED BY <1>2, Slots

\* raw_agg passes on what committee_fixture has written to its end.
LEMMA RawGate ==
  ASSUME IInv, TornInv, ControlsInv, CompleteInv, prepared.done, "fixture" \notin cut
  PROVE  RawPasses(prepared.size)
<1>0. FixtureInv /\ FixtureControlsInv /\ FixtureCompleteInv /\ FixtureDone(fixture, prepared.size)
  BY DEF IInv, ControlsInv, CompleteInv, FixtureCompleteInv, FixtureProgress
<1> DEFINE run == prepared.run
           n == prepared.size
           honest == fixture[AttackFile("honest")]
           outsider == fixture[AttackFile("outsider")]
           late == fixture[AttackFile("slot")]
<1>1. /\ HasUpdates(fixture, n)
      /\ {AttackFile("honest"), AttackFile("slot"), AttackFile("outsider")} \subseteq DOMAIN fixture
  BY <1>0 DEF FixtureDone
<1>2. AnchorFile \in DOMAIN fixture /\ fixture[AnchorFile] = Anchor(run) /\ run \in Run /\ n \in Updates
  BY <1>0, <1>1 DEF FixtureInv, CompleteInv, FixtureWhole
<1>10. UpdatesIn(FixtureNames) = 0 .. n - 1 /\ Cardinality(UpdatesIn(FixtureNames)) = n
  <2>1. fixtureTorn = {} /\ n \in Nat
    BY <1>2, Params DEF TornInv
  <2>2. ASSUME NEW v PROVE v \in UpdatesIn(FixtureNames) <=> v \in 0 .. n - 1
    <3>1. v \in UpdatesIn(FixtureNames) <=> v \in Version /\ v < n
      BY <1>1, <2>1 DEF UpdatesIn, FixtureNames, HasUpdates
    <3>2. v \in Version => v \in Nat
      BY Versions
    <3>3. v \in Nat /\ v < n => v \in Version
      BY <1>2, Versions
    <3>4. v \in Nat /\ v < n <=> v \in 0 .. n - 1
      <4> HIDE DEF n
      <4> QED BY <2>1
    <3> QED BY <3>1, <3>2, <3>3, <3>4
  <2>3. Cardinality(0 .. n - 1) = n
    <3> HIDE DEF n
    <3>1. Cardinality(0 .. n - 1) = IF 0 > n - 1 THEN 0 ELSE (n - 1) - 0 + 1
      BY <2>1, FS_Interval
    <3> QED BY <2>1, <3>1
  <2>4. UpdatesIn(FixtureNames) = 0 .. n - 1
    BY <2>2
  <2> QED BY <2>3, <2>4
<1>3. ASSUME NEW v \in 0 .. n - 1 PROVE V!VerifyStatusList(Anchor(run), fixture[UpdateFile(v)])
  <2>1. n \in Nat /\ v \in Nat /\ v < n
    <3>1. n \in Nat
      BY <1>2, Params
    <3> HIDE DEF n
    <3> QED BY <3>1
  <2>2. v \in Version
    BY <1>2, <2>1, Versions
  <2>3. UpdateFile(v) \in DOMAIN fixture
    BY <1>1, <2>1, <2>2 DEF HasUpdates
  <2> DEFINE r == fixture[UpdateFile(v)]
             l == r.list
  <2>4. r = Raw(l, v, QuorumSignatures(run, Quorum(v), l, v))
    <3>1. FixtureUpdateIn(fixture, prepared.run, signed, v)
      BY <1>0, <2>2 DEF FixtureCompleteInv
    <3> QED BY <2>3, <3>1, Zenon DEF FixtureUpdateIn
  <2>5. IsQuorum(Quorum(v))
    BY <1>2, <2>2, AreQuorums
  <2>6. UpdateIs(run, Quorum(v), l, v, r)
    <3> HIDE DEF r, l, run
    <3> QED BY <2>4, <2>5, UpdateOfQuorum
  <2>7. V!SlotFor(Anchor(run), v) # V!NoSlot
    <3>1. v \in 0 .. n
      BY <2>1
    <3> QED BY <1>2, <3>1, UpdateSlots
  <2> QED BY <2>6, <2>7, Zenon DEF UpdateIs
<1>4. /\ FixtureControlIn(fixture, prepared, signed, "honest")
      /\ FixtureControlIn(fixture, prepared, signed, "outsider")
      /\ FixtureControlIn(fixture, prepared, signed, "slot")
  BY <1>0 DEF FixtureControlsInv, RawControl
<1>5. honest.list \in Seq(Entry) /\ honest = Raw(honest.list, n, Signs(Anchor(run), run, honest.list, n, "honest"))
  BY <1>1, <1>4 DEF FixtureControlIn, FixtureSignatures, FixtureVersion
<1>6. outsider = Raw(outsider.list, n, MixedSignatures(run, outsider.list, n))
  BY <1>1, <1>4 DEF FixtureControlIn, FixtureSignatures, FixtureVersion
<1>7. late = Raw(late.list, n, Signs(Anchor(run), run, late.list, n, "slot"))
  BY <1>1, <1>4 DEF FixtureControlIn, FixtureSignatures, FixtureVersion
<1>8. RawControlsRefused(Anchor(run), honest, outsider, late)
  <2> DEFINE l1 == honest.list
             l2 == outsider.list
             l3 == late.list
  <2>1. /\ l1 \in Seq(Entry) /\ honest = Raw(l1, n, Signs(Anchor(run), run, l1, n, "honest"))
        /\ outsider = Raw(l2, n, MixedSignatures(run, l2, n))
        /\ late = Raw(l3, n, Signs(Anchor(run), run, l3, n, "slot"))
    BY <1>5, <1>6, <1>7
  <2>2. run \in Run /\ n \in Updates
    BY <1>2
  <2> HIDE DEF run, n, honest, outsider, late, l1, l2, l3
  <2> QED BY <2>1, <2>2, RawRefused
<1>9. AnchorFile \in DOMAIN fixture /\ fixture[AnchorFile] = Anchor(run)
  BY <1>2
<1>11. \A v \in UpdatesIn(FixtureNames) : UpdateFile(v) \in DOMAIN fixture
  <2>1. fixtureTorn = {}
    BY DEF TornInv
  <2> QED BY <2>1 DEF UpdatesIn, FixtureNames
<1> QED BY <1>1, <1>3, <1>8, <1>9, <1>10, <1>11 DEF RawPasses

\* The demo and raw_agg by itself accept each update that they have made.
LEMMA MemoryGate ==
  ASSUME IInv, CompleteInv, job.by \in InMemory, job.step \in 1 .. job.size
  PROVE  /\ job.by = "demo" => DemoUpdatePasses
         /\ RawUpdatePasses
<1>0. CoreTypes /\ JobInv
  BY DEF IInv
<1> DEFINE run == job.run
           v == job.step - 1
           I == Rotating(v)
           list == job.list
           own == QuorumSignatures(run, I, list, v)
           a == Anchor(run)
           r == Raw(list, v, own)
           u == Snark(list, v, Proof(a, r, AggregationInputs(a, r)))
<1>1. job.size \in Updates /\ job.size \in Nat /\ v \in Nat /\ v \in 0 .. job.size
  <2>1. job.size \in Updates
    BY <1>0 DEF JobInv, Idle, InMemory
  <2>2. job.size \in Nat
    BY <2>1, Params
  <2> QED BY <2>1, <2>2
<1>2. IsQuorum(I)
  BY <1>1, AreQuorums
<1>3. UpdateSignatures(list, v) = own
  BY DEF UpdateSignatures, QuorumSignatures
<1>4. UpdateRaw = r
  BY <1>3 DEF UpdateRaw
<1>5. UpdateIs(run, I, list, v, r)
  <2> HIDE DEF run, I, list, v
  <2> QED BY <1>2, UpdateOfQuorum
<1>6. V!SlotFor(a, v) # V!NoSlot
  BY <1>1, UpdateSlots
<1>7. RawUpdatePasses
  <2>1. V!RawDecodes(r) /\ V!VerifyStatusList(a, r)
    BY <1>5, <1>6, Zenon DEF UpdateIs
  <2> QED BY <1>4, <2>1, Zenon DEF RawUpdatePasses
<1>8. ASSUME job.by = "demo" PROVE DemoUpdatePasses
  <2>1. u = ProvedUpdate(run, I, list, v)
    BY <1>5, Zenon DEF UpdateIs
  <2>2. own \subseteq signed
    <3>1. UpdateSignatures(list, v) \subseteq signed
      BY <1>8 DEF CompleteInv, DemoUpdateInv
    <3> QED BY <1>3, <3>1, Zenon
  <2>3. ProvedIs(run, I, list, v, u)
    <3> HIDE DEF run, I, list, v, u
    <3> QED BY <1>2, <2>1, ProvedFacts
  <2>4. Authentic(a, u)
    BY <2>2, <2>3, Zenon DEF ProvedIs
  <2> QED BY <1>4, <2>4, Zenon DEF DemoUpdatePasses
<1> QED BY <1>7, <1>8

\* raw_agg by itself refuses its controls.
LEMMA RawSelfGate ==
  ASSUME IInv, job.by = "raw"
  PROVE  RawSelfPasses
<1>0. CoreTypes /\ JobInv
  BY DEF IInv
<1> DEFINE run == job.run
           n == job.size
           list == job.list
           a == Anchor(run)
           own == RawSignatures("honest")
           honest == Raw(list, n, own)
           outsider == Raw(list, n, RawSignatures("outsider") \cup {s \in own : s.key.index # 0})
           late == Raw(list, n, RawSignatures("slot"))
<1>1. run \in Run /\ n \in Updates /\ list \in Seq(Entry)
  BY <1>0, JobTypes DEF JobInv, Idle
<1>2. /\ own = Signs(a, run, list, n, "honest")
      /\ RawSignatures("slot") = Signs(a, run, list, n, "slot")
      /\ RawSignatures("outsider") = Signatures(Keys(run, TRUE, {0}), Message(a, list, n), V!SlotFor(a, n))
  BY DEF RawSignatures
<1>3. /\ honest = Raw(list, n, Signs(a, run, list, n, "honest"))
      /\ outsider = Raw(list, n, MixedSignatures(run, list, n))
      /\ late = Raw(list, n, Signs(a, run, list, n, "slot"))
  BY <1>2, Zenon DEF MixedSignatures
<1>4. RawControlsRefused(a, honest, outsider, late)
  <2> HIDE DEF run, n, list, honest, outsider, late
  <2> QED BY <1>1, <1>3, RawRefused
<1> QED BY <1>4, Zenon DEF RawSelfPasses

\* No gate is too strict.  Whatever was killed or left over before: what prover has
\* written to its end passes verifier, on whichever mark, and check_prover_output, as
\* long as the verifier has left no lock there; what committee_fixture has written to its
\* end passes raw_agg; and the demo and raw_agg by itself accept their own updates and
\* refuse their own controls.  A directory that a later run has begun to clear is
\* excepted.
THEOREM CompleteRunsPass == Spec => []CompletePasses
<1>1. ASSUME IInv, TornInv, ControlsInv, CompleteInv PROVE CompletePasses
  <2>1. ASSUME made.done, made.by # "honest-only", "out" \notin cut, NEW m \in mark, m.anchor = out[AnchorFile]
        PROVE  VerifierPasses(out, m)
    BY <1>1, <2>1, VerifierGate
  <2>2. ASSUME made.done, made.by = "honest-only", made.run = prepared.run, cut = {}, ~locked
        PROVE  OutputPasses(out, made.size, TRUE)
    <3> DEFINE against == TRUE
    <3>1. against \in BOOLEAN /\ against /\ made.by = "honest-only" /\ made.run = prepared.run /\ cut = {}
          /\ "out" \notin cut
      BY <2>2
    <3> HIDE DEF against
    <3>2. OutputPasses(out, made.size, against)
      BY <1>1, <2>2, <3>1, OutputGate
    <3> QED BY <3>2, Zenon DEF against
  <2>3. ASSUME made.done, made.by = "self", "out" \notin cut, ~locked PROVE OutputPasses(out, made.size, FALSE)
    <3> DEFINE against == FALSE
    <3>1. against \in BOOLEAN /\ ~against
      OBVIOUS
    <3> HIDE DEF against
    <3>2. OutputPasses(out, made.size, against)
      BY <1>1, <2>3, <3>1, OutputGate
    <3> QED BY <3>2, Zenon DEF against
  <2>4. prepared.done /\ "fixture" \notin cut => RawPasses(prepared.size)
    BY <1>1, RawGate
  <2>5. job.step \in 1 .. job.size => (job.by = "demo" => DemoUpdatePasses) /\ (job.by = "raw" => RawUpdatePasses)
    BY <1>1, MemoryGate DEF InMemory
  <2>6. job.by = "raw" => RawSelfPasses
    BY <1>1, RawSelfGate
  <2> QED BY <2>1, <2>2, <2>3, <2>4, <2>5, <2>6, Zenon DEF CompletePasses
<1> QED BY <1>1, Inductive, TornInductive, ControlsInductive, CompleteInductive, PTL
=============================================================================
