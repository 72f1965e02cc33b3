------------------------------- MODULE Corpus -------------------------------
(***************************************************************************)
(* The acceptance gates of the command line tools (src/bin): one program   *)
(* signs a corpus of status lists (committee_fixture, or prover by itself),*)
(* prover turns it into SNARK records and adds six controls that must be   *)
(* refused, and verifier, raw_agg and check_prover_output decide by exit   *)
(* code whether everything is in order.  They meet in two directories.     *)
(* These programs sign with bare keys, without a slot counter.  The demo   *)
(* (main.rs) and raw_agg by itself do all of it in one process.            *)
(*                                                                         *)
(* One program runs at a time and may be killed anywhere: between two      *)
(* writes, while it removes the files of an earlier run one by one, or     *)
(* inside a write, which truncates the file first.  A file that was not    *)
(* written to its end is torn: its name is there, but it does not decode.  *)
(* (An anchor that ends between two members does decode; nothing else has  *)
(* been written by then.)  A run of the committee makes new keys.  The     *)
(* records, their signatures and what a verifier makes of them are those   *)
(* of Verification.  Left out: measurements and output.                    *)
(***************************************************************************)
EXTENDS Integers, Sequences, FiniteSets

CONSTANTS
  Size,        \* N_MEMBERS
  T,           \* threshold
  Genesis,     \* SLOT
  KeySlots,    \* KEY_SLOTS
  Updates,     \* the values N_UPDATES has in the builds that are used
  Quorum(_),   \* quorum_indices: t members for every version
  ListEntries, \* the values of BENCH_LIST_ENTRIES, 0 where it is not set
  Used(_),     \* bound: the programs that may be started first, second, ...
  Kills,       \* where a program may be killed, besides between two writes
  MaxRuns      \* bound: programs that are started

ASSUME ParamsAssumption ==
  /\ Size \in Nat /\ T \in 1 .. Size /\ Genesis \in Nat /\ KeySlots \in Nat
  /\ Updates \subseteq Nat \ {0} /\ \A n \in Updates : n + 1 < KeySlots
  /\ \A n \in Updates : \A v \in 0 .. n - 1 :
       Quorum(v) \subseteq 0 .. Size - 1 /\ Cardinality(Quorum(v)) = T
  /\ ListEntries \subseteq Nat /\ MaxRuns \in Nat
  /\ \A k \in 1 .. MaxRuns : Used(k) \subseteq {"fixture", "self", "prover", "honest-only", "demo", "raw"}
  /\ Kills \subseteq {"write", "clear"}

VARIABLES
  fixture,     \* the fixture directory: names and contents of whole files
  out,         \* the artifact directory, likewise
  fixtureTorn, \* the names of the files in the fixture directory that are torn
  outTorn,     \* the same of the artifact directory
  mark,        \* the verifier's high-water marks, at most one in either place
  locked,      \* the verifier's lock file is in the artifact directory
  job,         \* the program that runs
  signed,      \* signatures that were made
  reused,      \* history: a key signed at a slot where it had signed before
  runs,        \* programs started so far
  prepared,    \* history: how the fixture directory came about
  made,        \* history: how the artifact directory came about
  cut          \* history: directories that miss files which their run has written,
               \* or were made from such a directory

torn == <<fixtureTorn, outTorn>>
dirs == <<fixture, out, torn>>
history == <<prepared, made, cut>>
vars == <<dirs, mark, locked, job, signed, reused, runs, history>>

Member == 0 .. Size - 1
Run == 1 .. MaxRuns

\* The key pairs of a run; its outsiders are not in its committee.
Key == [run : Run, outsider : BOOLEAN, index : Member]
Keys(run, outsider, indices) == {[run |-> run, outsider |-> outsider, index |-> i] : i \in indices}

V == INSTANCE Verification WITH
       MlDsaKey <- {}, List <- {}, Wire <- {}, MaxCommittee <- Size,
       MaxU32 <- Genesis + KeySlots + 1, MaxSignatures <- 0, next <- 0, accepted <- {}

\* Committee::new over the run's keys.
Anchor(run) ==
  [tag |-> V!WotsXmss, t |-> T, genesis |-> Genesis,
   members |-> [i \in 1 .. Size |-> [run |-> run, outsider |-> FALSE, index |-> i - 1]]]

\* The same committee with an outsider in the place of member zero.
OutsiderAnchor(run) == [Anchor(run) EXCEPT !.members[1].outsider = TRUE]

Control == {"outsider", "tampered", "version", "slot", "short", "proofbody"}
RawControl == {"honest", "slot", "version", "outsider"}

UpdateFile(i) == <<"update", i>>
AttackFile(c) == <<"attack", c>>
AnchorFile == <<"anchor", "">>
CanonicalFile == <<"canonical", "">>
OutsiderFile == <<"outsider-anchor", "">>

Version == {0} \cup UNION {0 .. n - 1 : n \in Updates}
OutFiles ==
  {AnchorFile, CanonicalFile} \cup {UpdateFile(v) : v \in Version} \cup {AttackFile(c) : c \in Control}
FixtureFiles ==
  {AnchorFile, OutsiderFile} \cup {UpdateFile(v) : v \in Version} \cup {AttackFile(c) : c \in RawControl}

Program == {"none", "fixture", "self", "prover", "honest-only", "demo", "raw"}
Made == [by : Program, run : Run \cup {0}, size : Updates \cup {0}, done : BOOLEAN]
Job == [by : Program, run : Run \cup {0}, size : Updates \cup {0}, step : Nat,
        list : Seq([run : Run, n : Int, at : Nat]), entries : ListEntries \cup {0}]
NoJob == [by |-> "none", run |-> 0, size |-> 0, step |-> 0, list |-> <<>>, entries |-> 0]
Nothing == [by |-> "none", run |-> 0, size |-> 0, done |-> FALSE]
Mark == [anchor : {Anchor(r) : r \in Run}, version : {-1} \cup Version, inside : BOOLEAN]

TypeOK ==
  /\ DOMAIN fixture \subseteq FixtureFiles
  /\ DOMAIN out \subseteq OutFiles
  /\ fixtureTorn \subseteq FixtureFiles /\ outTorn \subseteq OutFiles
  /\ mark \subseteq Mark /\ \A m, q \in mark : m.inside = q.inside => m = q
  /\ locked \in BOOLEAN
  /\ job \in Job
  /\ \A s \in signed : s.key \in Key /\ s.slot \in Genesis .. Genesis + KeySlots
  /\ reused \in BOOLEAN
  /\ runs \in 0 .. MaxRuns
  /\ prepared \in Made /\ made \in Made /\ cut \subseteq {"fixture", "out"}

Empty == [f \in {} |-> 0]

Init ==
  /\ fixture = Empty /\ out = Empty /\ fixtureTorn = {} /\ outTorn = {}
  /\ mark = {} /\ locked = FALSE
  /\ job = NoJob
  /\ signed = {} /\ reused = FALSE
  /\ runs = 0
  /\ prepared = Nothing /\ made = Nothing /\ cut = {}

-----------------------------------------------------------------------------
(* Lists, quorums and signatures                                           *)

Fresh(run, n, at) == [run |-> run, n |-> n, at |-> at]
Fake == Fresh(0, 0, 0)

\* advance_list: grow by one, or keep the size and replace one in turn.
AdvanceList(list, run, v, entries) ==
  IF entries = 0 THEN Append(list, Fresh(run, v, 0))
  ELSE IF Len(list) # entries THEN [p \in 1 .. entries |-> Fresh(run, v, p)]
  ELSE [list EXCEPT ![((v - 1) % entries) + 1] = Fresh(run, v, 0)]

\* The self-contained programs rotate their quorum.
Rotating(v) == {(v + j) % Size : j \in 0 .. T - 1}
FirstT == 0 .. T - 1

Message(a, list, v) == V!MessageFor(a, V!WotsXmss, list, v)

\* sign, once with every key of the set.
Signatures(keys, message, slot) == {[key |-> k, message |-> message, slot |-> slot] : k \in keys}

Sign(new) ==
  /\ signed' = signed \cup new
  /\ reused' = (reused \/ \E s \in new, q \in signed : s.key = q.key /\ s.slot = q.slot)

\* StatusList::new over signatures of the run's keys.
Raw(list, v, sigs) ==
  V!StatusListNew(V!WotsXmss, list, v, Size, {<<s.key.index, s>> : s \in sigs})

-----------------------------------------------------------------------------
(* The controls.  All are made of signatures at three slots that no update *)
(* uses.                                                                   *)

\* Mutant: the wrong slot is two after the right one.
LateVersionByTwo(v) == v + 2

\* The wrong-slot control is signed where the next version belongs.
LateVersion(v) == v + 1

\* Mutant: the relabelled list is signed where its own version belongs.
SpoofSlotOfList(a) == V!SlotFor(a, 0)

\* The relabelled control is signed where its new version belongs.
SpoofSlot(a) == V!SlotFor(a, KeySlots)

\* What the quorum signs for a control: keys, list, version and slot.
Signs(a, run, list, n, c) ==
  CASE c = "honest" ->
         Signatures(Keys(run, FALSE, FirstT), Message(a, list, n), V!SlotFor(a, n))
    [] c = "slot" ->
         Signatures(Keys(run, FALSE, FirstT), Message(a, list, n), V!SlotFor(a, LateVersion(n)))
    [] c = "version" ->
         Signatures(Keys(run, FALSE, FirstT), Message(a, list, n - 1), SpoofSlot(a))

\* An aggregation input is a key and its signature.  leanVM proves nothing about
\* signatures that do not verify.
Aggregate(inputs, message, slot) ==
  [V!MakeAggregate({inputs[i][1] : i \in DOMAIN inputs}, message, slot) EXCEPT
     !.body = \A i \in DOMAIN inputs : V!XmssVerify(inputs[i][1], message, inputs[i][2], slot)]

\* The i-th signature belongs to the i-th index that is set.
AggregationInputs(a, r) ==
  [i \in 1 .. Len(r.sigs) |->
     <<a.members[(CHOOSE b \in r.bits : V!Rank(r.bits, b) = i) + 1], r.sigs[i]>>]

Snark(list, v, proof) == V!SnarkRecord(V!WotsXmss, list, v, proof)
Proof(a, r, inputs) == Aggregate(inputs, Message(a, r.list, r.version), V!SlotFor(a, r.version))

\* The control, from a raw record and its aggregation inputs.
ControlRecord(a, c, r, inputs) ==
  CASE c = "tampered" -> Snark(Append(r.list, Fake), r.version, Proof(a, r, inputs))
    [] c = "proofbody" -> Snark(r.list, r.version, [Proof(a, r, inputs) EXCEPT !.body = FALSE])
    [] c = "short" -> Snark(r.list, r.version, Proof(a, r, SubSeq(inputs, 1, T - 1)))
    [] c = "slot" -> Snark(r.list, r.version,
                           Aggregate(inputs, Message(a, r.list, r.version), V!SlotFor(a, LateVersion(r.version))))
    [] c = "version" -> Snark(r.list, KeySlots,
                              Aggregate(inputs, Message(a, r.list, r.version), SpoofSlot(a)))
    [] c = "outsider" -> Snark(r.list, r.version, Proof(a, r, inputs))

-----------------------------------------------------------------------------
(* Files and programs                                                      *)

\* write, when it comes to its end; TornWrite is the other case.
Write(dir, f, content) == [g \in DOMAIN dir \cup {f} |-> IF g = f THEN content ELSE dir[g]]

\* Mutant: the files of an earlier run are written over.
ClearNothing(dir) == dir

\* A program removes what an earlier run of it has left.
Clear(dir) == Empty

\* The entries of the directories, whole or torn.
FixtureNames == DOMAIN fixture \cup fixtureTorn
OutNames == DOMAIN out \cup outTorn

Idle == job.by = "none"
Ends == job' = NoJob
Steps == job' = [job EXCEPT !.step = @ + 1]

\* The keys and records of these programs are gone with them.
InMemory == {"demo", "raw"}
SignedOnFile == {s \in signed : job.by \in InMemory => s.key.run # job.run}

\* The program dies, or ends what it does in memory.
Kill == ~Idle /\ Ends /\ signed' = SignedOnFile /\ UNCHANGED <<dirs, mark, locked, reused, runs, history>>

-----------------------------------------------------------------------------
(* committee_fixture                                                       *)

FixtureStart ==
  \E n \in Updates, e \in ListEntries :
    /\ Idle /\ runs < MaxRuns /\ "fixture" \in Used(runs + 1)
    /\ runs' = runs + 1
    /\ fixture' = Write(Clear(fixture), AnchorFile, Anchor(runs')) /\ fixtureTorn' = {}
    /\ job' = [NoJob EXCEPT !.by = "fixture", !.run = runs', !.size = n, !.entries = e]
    /\ prepared' = [by |-> "fixture", run |-> runs', size |-> n, done |-> FALSE]
    /\ cut' = cut \ {"fixture"}
    /\ UNCHANGED <<out, outTorn, mark, locked, signed, reused, made>>

FixtureUpdate ==
  /\ job.by = "fixture" /\ job.step < job.size
  /\ LET a == Anchor(job.run)
         list == AdvanceList(job.list, job.run, job.step, job.entries)
         sigs == Signatures(Keys(job.run, FALSE, Quorum(job.step)), Message(a, list, job.step),
                            V!SlotFor(a, job.step))
     IN /\ Sign(sigs)
        /\ fixture' = Write(fixture, UpdateFile(job.step), Raw(list, job.step, sigs))
        /\ job' = [job EXCEPT !.step = @ + 1, !.list = list]
  /\ UNCHANGED <<out, torn, mark, locked, runs, history>>

FixtureControls == <<"honest", "slot", "version">>

\* The first three controls carry the version that was signed.
FixtureControl ==
  /\ job.by = "fixture"
  /\ job.step - job.size + 1 \in DOMAIN FixtureControls
  /\ LET a == Anchor(job.run)
         c == FixtureControls[job.step - job.size + 1]
         sigs == Signs(a, job.run, job.list, job.size, c)
         v == IF c = "version" THEN job.size - 1 ELSE job.size
     IN /\ Sign(sigs)
        /\ fixture' = Write(fixture, AttackFile(c), Raw(job.list, v, sigs))
  /\ Steps
  /\ UNCHANGED <<out, torn, mark, locked, runs, history>>

FixtureOutsiderAnchor ==
  /\ job.by = "fixture" /\ job.step = job.size + 3
  /\ fixture' = Write(fixture, OutsiderFile, OutsiderAnchor(job.run))
  /\ Steps
  /\ UNCHANGED <<out, torn, mark, locked, signed, reused, runs, history>>

\* One outsider signs; the other signatures are those of the honest control.
FixtureOutsider ==
  /\ job.by = "fixture" /\ job.step = job.size + 4
  /\ LET a == Anchor(job.run)
         m == Message(a, job.list, job.size)
         new == Signatures(Keys(job.run, TRUE, {0}), m, V!SlotFor(a, job.size))
         old == {s \in Signs(a, job.run, job.list, job.size, "honest") : s.key.index # 0}
     IN /\ Sign(new)
        /\ fixture' = Write(fixture, AttackFile("outsider"), Raw(job.list, job.size, new \cup old))
  /\ Ends
  /\ prepared' = [prepared EXCEPT !.done = TRUE]
  /\ UNCHANGED <<out, torn, mark, locked, runs, made, cut>>

-----------------------------------------------------------------------------
(* prover over a fixture                                                   *)

\* fixture_files: the updates that a directory lists.
UpdatesIn(names) == {v \in Version : UpdateFile(v) \in names}

\* Everything from an earlier run is removed, then the anchor is copied; a threshold
\* too small for the controls, an anchor that does not decode or a fixture of another
\* size makes the program panic.
ProverStart ==
  \E n \in Updates, by \in {"prover", "honest-only"} \cap Used(runs + 1) :
    LET found == (by = "honest-only" \/ T >= 2) /\ AnchorFile \in DOMAIN fixture
        run == IF found THEN prepared.run ELSE 0
    IN /\ Idle /\ runs < MaxRuns
       /\ runs' = runs + 1
       /\ out' = IF found THEN Write(Clear(out), AnchorFile, fixture[AnchorFile]) ELSE Clear(out)
       /\ outTorn' = {}
       /\ job' = IF found /\ Cardinality(UpdatesIn(FixtureNames)) = n
                 THEN [NoJob EXCEPT !.by = by, !.run = run, !.size = n] ELSE NoJob
       /\ made' = [by |-> by, run |-> run, size |-> n, done |-> FALSE]
       /\ cut' = IF "fixture" \in cut THEN cut \cup {"out"} ELSE cut \ {"out"}
       /\ UNCHANGED <<fixture, fixtureTorn, mark, locked, signed, reused, prepared>>

\* The raw updates are taken in the order of their names.  The program panics if the
\* one at its turn does not decode or does not carry one quorum.
IsNextUpdate(v) ==
  /\ v \in UpdatesIn(FixtureNames) /\ V!Rank(UpdatesIn(FixtureNames), v) = job.step + 1
  /\ UpdateFile(v) \in DOMAIN fixture /\ Cardinality(fixture[UpdateFile(v)].bits) = T

ProveUpdate ==
  /\ job.by \in {"prover", "honest-only"} /\ job.step < job.size
  /\ \E v \in Version :
       /\ IsNextUpdate(v)
       /\ LET a == out[AnchorFile]
              r == fixture[UpdateFile(v)]
          IN out' = Write(out, UpdateFile(job.step),
                          Snark(r.list, r.version, Proof(a, r, AggregationInputs(a, r))))
  /\ Steps
  /\ UNCHANGED <<fixture, torn, mark, locked, signed, reused, runs, history>>

\* The last update is also the canonical record.
WriteCanonical ==
  /\ job.by \in {"prover", "honest-only", "self"} /\ job.step = job.size
  /\ out' = Write(out, CanonicalFile, out[UpdateFile(job.size - 1)])
  /\ IF job.by = "honest-only" THEN Ends /\ made' = [made EXCEPT !.done = TRUE]
                               ELSE Steps /\ UNCHANGED made
  /\ UNCHANGED <<fixture, torn, mark, locked, signed, reused, runs, prepared, cut>>

ProverControls == <<"tampered", "proofbody", "short", "slot", "version", "outsider">>

\* The fixture's record that a control is made from.
SourceOf(c) == IF c \in {"tampered", "proofbody", "short"} THEN "honest" ELSE c

\* A control that the fixture has no whole record for makes the program panic.
Sourced(c) ==
  /\ AttackFile(SourceOf(c)) \in DOMAIN fixture
  /\ c = "outsider" => OutsiderFile \in DOMAIN fixture

ProveControl ==
  /\ job.by = "prover" /\ job.step > job.size
  /\ LET c == ProverControls[job.step - job.size]
         a == out[AnchorFile]
         from == AttackFile(SourceOf(c))
         last == c = ProverControls[Len(ProverControls)]
     IN IF Sourced(c)
        THEN LET named == IF c = "outsider" THEN fixture[OutsiderFile] ELSE a
             IN /\ out' = Write(out, AttackFile(c),
                                ControlRecord(a, c, fixture[from], AggregationInputs(named, fixture[from])))
                /\ IF last THEN Ends ELSE Steps
                /\ made' = [made EXCEPT !.done = last]
        ELSE Ends /\ UNCHANGED <<out, made>>
  /\ UNCHANGED <<fixture, torn, mark, locked, signed, reused, runs, prepared, cut>>

-----------------------------------------------------------------------------
(* prover by itself                                                        *)

SelfStart ==
  \E n \in Updates :
    /\ Idle /\ runs < MaxRuns /\ "self" \in Used(runs + 1)
    /\ runs' = runs + 1
    /\ out' = IF T >= 2 THEN Write(Clear(out), AnchorFile, Anchor(runs')) ELSE Clear(out)
    /\ outTorn' = {}
    /\ job' = IF T >= 2 THEN [NoJob EXCEPT !.by = "self", !.run = runs', !.size = n] ELSE NoJob
    /\ made' = [by |-> "self", run |-> runs', size |-> n, done |-> FALSE]
    /\ cut' = cut \ {"out"}
    /\ UNCHANGED <<fixture, fixtureTorn, mark, locked, signed, reused, prepared>>

\* The list grows by one, and the rotating quorum of the version signs it.
NextList == AdvanceList(job.list, job.run, job.step, 0)
UpdateSignatures(list, v) ==
  LET a == Anchor(job.run)
  IN Signatures(Keys(job.run, FALSE, Rotating(v)), Message(a, list, v), V!SlotFor(a, v))

SelfUpdate ==
  /\ job.by = "self" /\ job.step < job.size
  /\ LET a == Anchor(job.run)
         sigs == UpdateSignatures(NextList, job.step)
         r == Raw(NextList, job.step, sigs)
     IN /\ Sign(sigs)
        /\ out' = Write(out, UpdateFile(job.step),
                        Snark(r.list, r.version, Proof(a, r, AggregationInputs(a, r))))
  /\ job' = [job EXCEPT !.step = @ + 1, !.list = NextList]
  /\ UNCHANGED <<fixture, torn, mark, locked, runs, history>>

SelfControls == <<"tampered", "proofbody", "short", "slot", "outsider", "version">>

\* Three controls share one set of signatures; the outsiders sign another list as
\* version 0.
OutsiderList == <<Fresh(job.run, -1, 0)>>
OwnSignatures(c) ==
  LET a == Anchor(job.run) IN
  IF c = "outsider"
  THEN Signatures(Keys(job.run, TRUE, FirstT), Message(a, OutsiderList, 0), Genesis)
  ELSE Signs(a, job.run, job.list, job.size, SourceOf(c))

\* The control that these signatures are made into.
OwnControl(c) ==
  LET v == IF c = "version" THEN job.size - 1 ELSE IF c = "outsider" THEN 0 ELSE job.size
      r == Raw(IF c = "outsider" THEN OutsiderList ELSE job.list, v, OwnSignatures(c))
  IN ControlRecord(Anchor(job.run), c, r, [i \in 1 .. T |-> <<r.sigs[i].key, r.sigs[i]>>])

SelfControl ==
  /\ job.by = "self" /\ job.step > job.size
  /\ LET c == SelfControls[job.step - job.size]
         last == c = SelfControls[Len(SelfControls)]
     IN /\ Sign(IF c \in {"proofbody", "short"} THEN {} ELSE OwnSignatures(c))
        /\ out' = Write(out, AttackFile(c), OwnControl(c))
        /\ IF last THEN Ends ELSE Steps
        /\ made' = [made EXCEPT !.done = last]
  /\ UNCHANGED <<fixture, torn, mark, locked, runs, prepared, cut>>

-----------------------------------------------------------------------------
(* Killed inside a write, or while files are removed                       *)

ControlsOf(by) == IF by = "self" THEN SelfControls ELSE ProverControls

\* The file that the program writes next.
FixtureTail ==
  <<AttackFile("honest"), AttackFile("slot"), AttackFile("version"), OutsiderFile, AttackFile("outsider")>>
NextFile ==
  CASE job.step < job.size -> UpdateFile(job.step)
    [] job.step >= job.size /\ job.by = "fixture" -> FixtureTail[job.step - job.size + 1]
    [] job.step = job.size /\ job.by # "fixture" -> CanonicalFile
    [] OTHER -> AttackFile(ControlsOf(job.by)[job.step - job.size])

\* The program has not panicked before it writes.
NextReadable ==
  /\ job.by \in {"prover", "honest-only"} /\ job.step < job.size =>
       \E v \in Version : IsNextUpdate(v)
  /\ job.by = "prover" /\ job.step > job.size => Sourced(ProverControls[job.step - job.size])

\* The file is created, its content is not there.  What was signed for it is lost.
TornWrite ==
  /\ "write" \in Kills
  /\ NextReadable
  /\ \/ /\ job.by = "fixture"
        /\ fixtureTorn' = {NextFile} /\ UNCHANGED outTorn
     \/ /\ job.by \in {"prover", "honest-only", "self"}
        /\ outTorn' = {NextFile} /\ UNCHANGED fixtureTorn
  /\ Ends
  /\ UNCHANGED <<fixture, out, mark, locked, signed, reused, runs, history>>

\* The same with the anchor, the first file of a run.
TornFixtureAnchor ==
  /\ "write" \in Kills
  /\ Idle /\ runs < MaxRuns
  /\ runs' = runs + 1
  /\ fixture' = Clear(fixture) /\ fixtureTorn' = {AnchorFile}
  /\ prepared' = Nothing /\ cut' = cut \ {"fixture"}
  /\ UNCHANGED <<out, outTorn, mark, locked, job, signed, reused, made>>

TornOutAnchor ==
  /\ "write" \in Kills
  /\ Idle /\ runs < MaxRuns
  /\ T >= 2 \/ AnchorFile \in DOMAIN fixture
  /\ runs' = runs + 1
  /\ out' = Clear(out) /\ outTorn' = {AnchorFile}
  /\ made' = Nothing /\ cut' = cut \ {"out"}
  /\ UNCHANGED <<fixture, fixtureTorn, mark, locked, job, signed, reused, prepared>>

\* Some files of the earlier run are gone, in the order in which the directory lists
\* them, which can be any.
Kept(dir, names) == [f \in DOMAIN dir \cap names |-> dir[f]]

PartlyClearedFixture ==
  /\ "clear" \in Kills
  /\ Idle /\ runs < MaxRuns
  /\ runs' = runs + 1
  /\ \E names \in SUBSET FixtureNames :
       /\ names # FixtureNames
       /\ fixture' = Kept(fixture, names) /\ fixtureTorn' = fixtureTorn \cap names
  /\ cut' = cut \cup {"fixture"}
  /\ UNCHANGED <<out, outTorn, mark, locked, job, signed, reused, prepared, made>>

PartlyClearedOut ==
  /\ "clear" \in Kills
  /\ Idle /\ runs < MaxRuns
  /\ runs' = runs + 1
  /\ \E names \in SUBSET OutNames :
       /\ names # OutNames
       /\ out' = Kept(out, names) /\ outTorn' = outTorn \cap names
  /\ cut' = cut \cup {"out"}
  /\ UNCHANGED <<fixture, fixtureTorn, mark, locked, job, signed, reused, prepared, made>>

-----------------------------------------------------------------------------
(* The demo and raw_agg by itself                                          *)

MemoryStart ==
  \E n \in Updates, by \in InMemory \cap Used(runs + 1) :
    /\ Idle /\ runs < MaxRuns
    /\ runs' = runs + 1
    /\ job' = [NoJob EXCEPT !.by = by, !.run = runs', !.size = n]
    /\ UNCHANGED <<dirs, mark, locked, signed, reused, history>>

\* run_flow signs with bare keys.
DemoUpdate ==
  /\ job.by = "demo" /\ job.step < job.size
  /\ Sign(UpdateSignatures(NextList, job.step))
  /\ job' = [job EXCEPT !.step = @ + 1, !.list = NextList]
  /\ UNCHANGED <<dirs, mark, locked, runs, history>>

DemoControls == <<"tampered", "outsider", "version">>

DemoControl ==
  /\ job.by = "demo"
  /\ job.step - job.size + 1 \in DOMAIN DemoControls
  /\ Sign(OwnSignatures(DemoControls[job.step - job.size + 1]))
  /\ Steps
  /\ UNCHANGED <<dirs, mark, locked, runs, history>>

\* Every member of raw_agg has a counter, which must not have passed the slot.
SignAt(new) ==
  /\ \A s \in new, q \in signed : s.key = q.key => q.slot < s.slot
  /\ Sign(new)

RawUpdate ==
  /\ job.by = "raw" /\ job.step < job.size
  /\ SignAt(UpdateSignatures(NextList, job.step))
  /\ job' = [job EXCEPT !.step = @ + 1, !.list = NextList]
  /\ UNCHANGED <<dirs, mark, locked, runs, history>>

\* An honest quorum, an outsider in the place of its first member, and the quorum
\* again, one slot late.
RawSigners == <<"honest", "outsider", "slot">>
RawSignatures(c) ==
  LET a == Anchor(job.run) IN
  IF c = "outsider"
  THEN Signatures(Keys(job.run, TRUE, {0}), Message(a, job.list, job.size), V!SlotFor(a, job.size))
  ELSE Signs(a, job.run, job.list, job.size, c)

RawControlSigned ==
  /\ job.by = "raw"
  /\ job.step - job.size + 1 \in DOMAIN RawSigners
  /\ SignAt(RawSignatures(RawSigners[job.step - job.size + 1]))
  /\ Steps
  /\ UNCHANGED <<dirs, mark, locked, runs, history>>

-----------------------------------------------------------------------------
(* verifier                                                                *)

Authentic(a, r) == V!SnarkDecodes(r) /\ V!Check(a, r)

\* Mutant: a control that is not there is no failure.
MissingIgnored(names) == {}

\* Every control must be there, whole or torn.
Missing(names) == {c \in Control : AttackFile(c) \notin names}

\* Mutant: the mark holds the version that comes next.
MarkAfterNext(dir, m) ==
  IF CanonicalFile \in DOMAIN dir THEN [m EXCEPT !.version = dir[CanonicalFile].version + 1] ELSE m

\* The canonical record, if it is authentic, is offered to the mark.
MarkAfter(dir, m) ==
  IF /\ CanonicalFile \in DOMAIN dir
     /\ Authentic(m.anchor, dir[CanonicalFile])
     /\ dir[CanonicalFile].version > m.version
  THEN [m EXCEPT !.version = dir[CanonicalFile].version] ELSE m

\* The first update that the directory lists, if it is authentic.
Replayed(dir, m) ==
  {v \in Version :
     /\ UpdateFile(v) \in DOMAIN dir /\ Authentic(m.anchor, dir[UpdateFile(v)])
     /\ \A w \in UpdatesIn(DOMAIN dir \cup outTorn) : v <= w}

\* It is replayed and must be refused as stale.
RollbackRefused(dir, m) ==
  /\ MarkAfter(dir, m).version # -1
  /\ \E v \in Replayed(dir, m) : dir[UpdateFile(v)].version <= MarkAfter(dir, m).version

\* If it is not, the mark has moved once more.
MarkAfterReplay(dir, m) ==
  LET after == MarkAfter(dir, m)
      newer == {v \in Replayed(dir, m) : dir[UpdateFile(v)].version > after.version}
  IN IF after.version # -1 /\ newer # {}
     THEN [after EXCEPT !.version = dir[UpdateFile(CHOOSE v \in newer : TRUE)].version] ELSE after

\* failures = 0.  A torn update fails; a torn control does not decode and counts as
\* rejected.
VerifierPasses(dir, m) ==
  /\ \A v \in Version : UpdateFile(v) \notin outTorn
  /\ \A v \in Version : UpdateFile(v) \in DOMAIN dir => Authentic(m.anchor, dir[UpdateFile(v)])
  /\ Missing(DOMAIN dir \cup outTorn) = {}
  /\ \A c \in Control : AttackFile(c) \in DOMAIN dir => ~Authentic(m.anchor, dir[AttackFile(c)])
  /\ CanonicalFile \in DOMAIN dir /\ Authentic(m.anchor, dir[CanonicalFile])
  /\ RollbackRefused(dir, m)

\* --init-state creates the mark and refuses to replace one.  By default it is a file
\* of the artifact directory, its lock beside it, where no program but the verifier
\* touches them.
InitState ==
  /\ Idle
  /\ AnchorFile \in DOMAIN out
  /\ \E inside \in BOOLEAN :
       /\ \A m \in mark : m.inside # inside
       /\ mark' = mark \cup {[anchor |-> out[AnchorFile], version |-> -1, inside |-> inside]}
       /\ locked' = (locked \/ inside)
  /\ UNCHANGED <<dirs, job, signed, reused, runs, history>>

\* A mark of another anchor is refused before anything else is read.
Verify ==
  /\ Idle
  /\ AnchorFile \in DOMAIN out
  /\ \E m \in mark : m.anchor = out[AnchorFile] /\ mark' = (mark \ {m}) \cup {MarkAfterReplay(out, m)}
  /\ UNCHANGED <<dirs, locked, job, signed, reused, runs, history>>

\* The lock comes first: it stays behind where there is no mark to open.
VerifyRefused ==
  /\ Idle
  /\ AnchorFile \in DOMAIN out
  /\ \A m \in mark : m.inside => m.anchor # out[AnchorFile]
  /\ locked' = TRUE
  /\ UNCHANGED <<dirs, mark, job, signed, reused, runs, history>>

\* The operator names another place outside the directory (VERIFIER_STATE).
NewMarkPath ==
  /\ Idle
  /\ \E m \in mark : ~m.inside /\ mark' = mark \ {m}
  /\ UNCHANGED <<dirs, locked, job, signed, reused, runs, history>>

-----------------------------------------------------------------------------
(* check_prover_output and raw_agg over a fixture only read                *)

\* One update, against the fixture's or, without one, against the one before.
UpdateAsExpected(dir, v, against) ==
  /\ UpdateFile(v) \in DOMAIN dir
  /\ LET r == dir[UpdateFile(v)] IN
     /\ Authentic(dir[AnchorFile], r) /\ r.version = v
     /\ IF against
        THEN LET raw == fixture[UpdateFile(v)] IN
             /\ UpdateFile(v) \in DOMAIN fixture
             /\ r.list = raw.list /\ r.version = raw.version
             /\ V!PubKeys(r.proof) = {dir[AnchorFile].members[i + 1] : i \in raw.bits}
        ELSE /\ Len(r.list) = v + 1
             /\ v > 0 => SubSeq(r.list, 1, v) = dir[UpdateFile(v - 1)].list

\* check_prover_output, with a fixture directory or without.  Every other entry of the
\* directory is a failure, the verifier's mark and its lock too.
OutputPasses(dir, n, against) ==
  /\ ~locked
  /\ {f \in DOMAIN dir \cup outTorn : against \/ f[1] # "attack"} =
       {AnchorFile, CanonicalFile} \cup {UpdateFile(v) : v \in 0 .. n - 1}
  /\ {AnchorFile, CanonicalFile} \subseteq DOMAIN dir
  /\ against => AnchorFile \in DOMAIN fixture /\ dir[AnchorFile] = fixture[AnchorFile]
  /\ \A v \in 0 .. n - 1 : UpdateAsExpected(dir, v, against)
  /\ dir[CanonicalFile] = dir[UpdateFile(n - 1)]

\* One bit of the last signature is flipped.
CorruptLastSignature(r) == [r EXCEPT !.sigs[Len(r.sigs)].slot = V!NoSlot]

IndexedSignatures(r) ==
  {<<b, r.sigs[V!Rank(r.bits, b)]>> : b \in r.bits}

\* The raw record with another list or version, or with fewer signatures.
Relabelled(r, list, v) == V!StatusListNew(r.tag, list, v, Size, IndexedSignatures(r))
Shortened(r) ==
  V!StatusListNew(r.tag, r.list, r.version, Size,
                  {p \in IndexedSignatures(r) : V!Rank(r.bits, p[1]) < T})

\* The six controls of raw_agg are refused.
RawControlsRefused(a, honest, outsider, late) ==
  \A r \in {Relabelled(honest, Append(honest.list, Fake), honest.version),
            Relabelled(honest, honest.list, honest.version + 1), Shortened(honest),
            outsider, late, CorruptLastSignature(honest)} : ~V!VerifyStatusList(a, r)

\* raw_agg over a fixture: the updates are accepted, the controls are not.
RawPasses(n) ==
  /\ {AnchorFile, AttackFile("honest"), AttackFile("slot"), AttackFile("outsider")} \subseteq DOMAIN fixture
  /\ Cardinality(UpdatesIn(FixtureNames)) = n
  /\ LET a == fixture[AnchorFile] IN
     /\ \A v \in UpdatesIn(FixtureNames) :
          UpdateFile(v) \in DOMAIN fixture /\ V!VerifyStatusList(a, fixture[UpdateFile(v)])
     /\ RawControlsRefused(a, fixture[AttackFile("honest")], fixture[AttackFile("outsider")],
                           fixture[AttackFile("slot")])

\* The demo and raw_agg by itself check each update before they go on, raw_agg its
\* controls at the end.
UpdateRaw == Raw(job.list, job.step - 1, UpdateSignatures(job.list, job.step - 1))
DemoUpdatePasses ==
  LET a == Anchor(job.run)
  IN Authentic(a, Snark(job.list, job.step - 1, Proof(a, UpdateRaw, AggregationInputs(a, UpdateRaw))))
RawUpdatePasses == V!RawDecodes(UpdateRaw) /\ V!VerifyStatusList(Anchor(job.run), UpdateRaw)
RawSelfPasses ==
  LET honest == RawSignatures("honest")
      record(sigs) == Raw(job.list, job.size, sigs)
  IN RawControlsRefused(Anchor(job.run), record(honest),
       record(RawSignatures("outsider") \cup {s \in honest : s.key.index # 0}),
       record(RawSignatures("slot")))

-----------------------------------------------------------------------------
Next ==
  \/ FixtureStart \/ FixtureUpdate \/ FixtureControl \/ FixtureOutsiderAnchor \/ FixtureOutsider
  \/ ProverStart \/ ProveUpdate \/ WriteCanonical \/ ProveControl
  \/ SelfStart \/ SelfUpdate \/ SelfControl
  \/ MemoryStart \/ DemoUpdate \/ DemoControl \/ RawUpdate \/ RawControlSigned
  \/ InitState \/ Verify \/ VerifyRefused \/ NewMarkPath
  \/ Kill \/ TornWrite \/ TornFixtureAnchor \/ TornOutAnchor \/ PartlyClearedFixture \/ PartlyClearedOut

Spec == Init /\ [][Next]_vars

-----------------------------------------------------------------------------
(* Properties                                                              *)

\* No key signs twice at one slot, through updates and controls: the programs have
\* no counter, only the arithmetic on N_UPDATES and KEY_SLOTS keeps them apart.
NoSlotTwice == ~reused

\* The checks of the SNARK predicate that a record passes, each taken by itself.
Passed(a, r) ==
  LET agg == r.proof
      group == CHOOSE g \in V!XmssSigners(agg) : TRUE
  IN (IF V!PubKeys(agg) \subseteq V!MembersOf(a) THEN {1} ELSE {})
     \cup (IF group.message = Message(a, r.list, r.version) THEN {2} ELSE {})
     \cup (IF group.slot = V!SlotFor(a, r.version) THEN {3} ELSE {})
     \cup (IF Cardinality(V!PubKeys(agg)) >= a.t THEN {4} ELSE {})
     \cup (IF V!AggregateVerifies(agg) THEN {5} ELSE {})

\* The check that each control is there for.
OwnCheck == [outsider |-> 1, tampered |-> 2, version |-> 2, slot |-> 3, short |-> 4, proofbody |-> 5]

\* Each control that is whole is refused by its own check and by no other, whichever
\* program made it and whatever was killed since: were that check dropped from the
\* verifier, the gate would notice.
ControlsIsolated ==
  /\ \A c \in Control : {AnchorFile, AttackFile(c)} \subseteq DOMAIN out =>
       Passed(out[AnchorFile], out[AttackFile(c)]) = 1 .. 5 \ {OwnCheck[c]}
  /\ job.by = "demo" => \A i \in DOMAIN DemoControls : i <= job.step - job.size =>
       Passed(Anchor(job.run), OwnControl(DemoControls[i])) = 1 .. 5 \ {OwnCheck[DemoControls[i]]}

\* verifier opens this mark and ends with success.
Passes(m) ==
  AnchorFile \in DOMAIN out /\ m.anchor = out[AnchorFile] /\ VerifierPasses(out, m)

\* The updates of a run of this size are whole, and there are no others.
HasUpdates(dir, n) == \A v \in Version : UpdateFile(v) \in DOMAIN dir <=> v < n

\* The control that a program writes last.
LastControl(by) == IF by = "prover" THEN "outsider" ELSE "version"

\* What a gate that passes is evidence of, whatever was killed or left over before.
\* verifier: one prover run has written every control to its end, except that the last
\* may be torn, and all its updates are there, unless a later run was killed while it
\* removed them.  check_prover_output: the directory is of a run over this very
\* fixture and of this size.
PassMeansComplete ==
  /\ \A m \in mark : Passes(m) =>
       /\ made.by \in {"prover", "self"}
       /\ \A c \in Control \ {LastControl(made.by)} : AttackFile(c) \in DOMAIN out
       /\ made.done \/ AttackFile(LastControl(made.by)) \in outTorn
       /\ "out" \notin cut => HasUpdates(out, made.size)
  /\ \A n \in Updates : OutputPasses(out, n, TRUE) => made.run = prepared.run /\ made.size = n

\* And the gates are not too strict: what a run has completed passes every gate that it
\* is meant for, as long as no later run has removed a part of it, on a new mark and on
\* one that has accepted it already; check_prover_output only while the verifier was
\* never started with its mark in the directory.
CompletePasses ==
  /\ made.done /\ made.by # "honest-only" /\ "out" \notin cut =>
       \A m \in mark : m.anchor = out[AnchorFile] => VerifierPasses(out, m)
  /\ made.done /\ made.by = "honest-only" /\ made.run = prepared.run /\ cut = {} /\ ~locked =>
       OutputPasses(out, made.size, TRUE)
  /\ made.done /\ made.by = "self" /\ "out" \notin cut /\ ~locked =>
       OutputPasses(out, made.size, FALSE)
  /\ prepared.done /\ "fixture" \notin cut => RawPasses(prepared.size)
  /\ job.step \in 1 .. job.size =>
       (job.by = "demo" => DemoUpdatePasses) /\ (job.by = "raw" => RawUpdatePasses)
  /\ job.by = "raw" /\ job.step = job.size + Len(RawSigners) => RawSelfPasses
=============================================================================
