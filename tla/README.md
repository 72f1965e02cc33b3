# A TLA+ model of the decentralized root of trust

The repository implements a post-quantum trust service: a committee of N members
signs versioned snapshots of a status list (the fingerprints of all valid
credentials), a record with t of N signatures (or a SNARK of them) is published,
and verifiers accept records in order.  Signatures are stateful XMSS: the version
of a snapshot decides the one-time slot it is signed with, and a slot used twice
gives the secret key away.  These promises carry the design, and the
modules here are about them:

1. **a slot is signed with once**, whatever crashes come in between
   (`src/state/slot_counter.rs`);
2. **a verifier never goes back** to a version it has passed, whatever crashes,
   failed writes and recoveries come in between (`src/state/freshness.rs`);
3. **the committee publishes one history**: no fork, gap or lost update, however
   many aggregators run rounds at the same time (`demo/src/bin/signer.rs`);
4. **an accepted record was signed by t members**, in each of its three forms
   (`src/node/raw_verifier.rs`, `snark_verifier.rs`, `mldsa/src/verifier.rs`);
5. **a holder's verdicts never go back**, whatever is lost between it, the
   committee and its own disk (`demo/src/bin/holder.rs`), as far as they rest on
   records that its mark does not call older;
6. **the network has one committee**, in whatever order and however often its
   parts start (`demo/src/bin/bootstrap.rs`), as long as the run identifier can be
   read;
7. **a passing test gate means something**: the corpus of records and forgeries
   that the command line programs exchange is complete, and each forgery tests
   the check it is there for (`src/bin/prover.rs`, `verifier.rs`), unless it was cut
   short while it was written.

The conditions in 5 to 7 are where the code and its documents differ: see
[Divergences](#divergences).

Paths below are relative to the repository root.

## Inventory

| Component | State | Operations | Interacts with | Hard behaviour | Correct when |
|---|---|---|---|---|---|
| Slot counter (`src/state/slot_counter.rs`) | journal of two checksummed records, lock file; in memory: generation, next slot | `create`, `open` (recover, migrate text), `reserve`, `reserve_at` | one per XMSS key, owned by the signer node | crash between write and sync, torn writes, lost renames, two processes, legacy text saturating at u32 | no slot handed out twice; a crash leaves a usable journal; foreign state is never replaced |
| Signer node (`src/node/signer.rs`) | key, counter | `sign`, `sign_at` | counter, called by `on_proposal` | failure between burning and signing | a signature exists only for a slot that was burnt for it |
| Freshness gate (`src/state/freshness.rs`) | one-line state file, lock file; in memory: mark | `create`, `open`, `load_from_trusted_source`, `try_advance` | owned by the verifier nodes | crash and I/O error inside `persist`, lost file, recovery, two processes | versions are accepted in strictly increasing order and durably |
| Verifier nodes (`src/node/raw_node.rs`, `snark_node.rs`) | anchor, mark | `accept` | gate, verification predicates | order of verify and advance | an unverified record moves nothing |
| Verification predicates (`src/node/raw_verifier.rs`, `snark_verifier.rs`, `mldsa/src/verifier.rs`) | none | `verify_status_list`, `verify` | anchor, record | five checks that only together imply a quorum | accepted iff t distinct members signed this list at this version under this anchor |
| Anchor and records (`src/protocol/*.rs`) | none | `Committee::new`, `slot_for`, `message_for`, `StatusList::new`, encodings | everyone | u32 edges, canonical decoding | decode is the inverse of encode and rejects all else |
| Signing rounds (`demo/src/bin/signer.rs`) | per node: signer mutex, round mutex | `on_status_request`, `collect_signatures`, `build_record`, `on_proposal`, restart | members over TCP, shared storage | concurrent aggregators, late and lost replies, restarts, stale reads | one history; each update built on the one before it; progress |
| Shared storage (`demo/src/storage.rs`) | current record, bootstrap files | `publish`, `current_record`, `wait_for` | rounds, holder, bootstrap | shared temporary file, read error looks like "nothing published" | readers see whole records |
| Wire (`demo/src/wire.rs`) | none | `send`, `recv`, `request` | rounds, holder | timeouts, broken connections | one reply per request or an error |
| Holder (`demo/src/bin/holder.rs`) | mark, saved credential | `run_round` | an aggregator, storage, gate | another round between reply and read; reply lost after publication; older records handed out by the volume | the saved credential is the one the accepted list holds |
| ML-DSA committee (`mldsa/`, `demo/src/bin/mldsa_*.rs`) | keys (stateless) | as the rounds, without a counter | storage | nothing makes a vote unique; publishers share a temporary file | with one aggregator, as the rounds; readers see whole records |
| Bootstrap (`demo/src/bin/bootstrap.rs`, start of all nodes) | run id, member keys, anchor; private: counters, mark | `reset`, draw, collect, publish; members: derive, publish, open, load; holder: load, create or open | all nodes over two shared volumes | start order, deaths, lost files, a run identifier that cannot be read, a second run | every node uses one anchor, nothing stale is left, no key comes back with its slots unspent |
| Command line tools (`src/bin/*.rs`) | fixture and output directories, a mark and its lock | `committee_fixture`, `prover`, `verifier`, `check_prover_output`, `raw_agg` | each other, through files | runs that are killed (also inside a write), repeated or of another size; slots by arithmetic | a gate that passes is evidence of a complete run, and complete runs pass; each control tests its own check; no slot is signed twice |
| Configuration, reporting, benchmarks | none | constants, printing, measuring | | | not modelled |

## Modules

| Module | Models | Proofs |
|---|---|---|
| `OneTimeSlots` | abstract: slots are granted in strictly increasing order | |
| `SlotCounter` | `AtomicSlotCounter` on a file system with a page cache; implements `OneTimeSlots` | `SlotCounterProofs` |
| `Freshness` | `HighWaterMark` and `accept` of the verifier nodes; implements `OneTimeSlots` with versions for slots | `FreshnessProofs` |
| `StatusRegistry` | abstract: one record whose versions follow one another by one change each | |
| `Rounds` | aggregators, members, messages, storage; implements `StatusRegistry` | `RoundsProofs` |
| `MlDsaRounds` | the rounds of the stateless variant and the files of `publish`; with one aggregator implements `StatusRegistry` | `MlDsaRoundsProofs` |
| `CredentialLedger` | abstract: the verdicts about a credential only go from unknown to valid to revoked | |
| `Holder` | both holders, over the registry and the mark; implements `CredentialLedger` | `HolderProofs` |
| `Verification` | anchors, statements, the three record forms and their predicates, over symbolic signatures | `VerificationProofs` |
| `Bootstrap` | the start of the demo network and the files it meets over | `BootstrapProofs` |
| `Corpus` | the command line programs over the fixture and output directories; uses `Verification` for every record and check | `CorpusProofs` |
| `MC*` | constants and symmetry for TLC | |

`SlotCounter` and `Rounds` meet in `OneTimeSlots`: what `Rounds` assumes of a
member's counter (`counter`: it survives restarts and only grows) is what
`SlotCounter` is shown to provide.  `Rounds` and `Freshness` meet in
`StatusRegistry`: `latest` in `Freshness` is the version of the one record.
`Holder` takes from `Rounds` that a round publishes only what follows the record
(`InOrder`), and from `Freshness` that the mark on disk moves before the one in
memory.  What `Freshness` calls an authentic record is what `Verification`
accepts.

Definitions whose comment begins with *Mutant* are deliberately wrong variants of
the definition that follows them.  No specification uses them; replacing the
definition by its mutant must make a named property fail, which shows that the
property depends on that piece of code.

### SlotCounter

`cache` is what `read()` returns, `disk` what the device holds; `entry` is what
the path names now, `durableEntry` what it names after a power loss.  `persist_next`
is two steps (`PersistWrites`, then `SyncData` or `SyncFails`), `install_journal`
three (`InstallImage`, `InstallRename`, `InstallDirSync`).  A failed `sync_data`
leaves the record readable and possibly not on the device; the kernel may write
it back later (`Writeback`).  A failed `write_all` shows like a process that never
wrote, or like `SyncFails`.

Three constants say which faults a run combines:

* `ProcessDeath`: a process may end while its writes are only in the page cache;
* `TornRecords`: a power loss may leave a record that fails its checksum;
* `LostRenames`: a power loss may undo a rename whose directory is not synced.

Bounds: two processes, a window of four slots starting at 1, `MaxU32` equal to the
end of the window (so that the saturation of the unversioned text matters) or one
above it, and a generation limit of 9, which four slots cannot reach: any number
of failed attempts reuses the same generation.

### Freshness

A persist replaces the file, so `path` and `durable` are single values: a mark,
`Missing`, or `Invalid` (malformed, or of another anchor).  The steps of a call
are the lock, the check under the lock, the rename and the directory sync.
`CallerMay` is the contract of the doc comments: `create` is for a verifier that
has accepted nothing (the holder and the verifier binary choose it only on
explicit initialisation), and recovery brings the registry's canonical-latest
version.  `LoseFile` is excluded during a `create` for the same reason.  Two
processes and four versions are enough for one process to fall two versions
behind the other.

### Rounds

`BeginRound` is `on_status_request` up to the broadcast, `Collect` and `Abandon`
the collection loop, `Publish` the rest.  A member's handler is two steps,
because it reads the published record without a lock (`CheckProposal`) before it
takes the signer's mutex (`Sign`, `Abstain`, `SignFails`).  A request whose round
has ended stays on its way with nobody to answer (`NoAggregator`): its member may
still burn a slot for it.  `Faults` chooses among lost messages, windows that
close early, failing operations, members that are killed, and records that cannot
be read (`current_record` turns a read error into "nothing published").

Bounds: three members with t = 2 and two aggregators (all faults), four members
with t = 3 (split votes); versions 0 to `KeyLast`; one credential identifier, as
issuer and version already tell concurrently issued credentials apart.
`MaxInFlight` delays a new round while more requests than that are outstanding; it
bounds the overlap of old requests with new rounds and is the only bound that
removes behaviour.  `RoundsProofs` does not depend on its value.

Assumed: members are honest (they run this program), the storage volume keeps a
published record, and 2t > N.  The code itself accepts any 0 < t <= N; the
deployed committee is 7 of 10.  Without 2t > N two disjoint quorums exist, and
nothing in the protocol keeps them apart.

### MlDsaRounds

ML-DSA members have no counter and no policy: `on_proposal` signs what it is
given and changes nothing, so a reply is one step of the aggregator (`Collect`).
What is new is `write_atomic`: a file is an inode, `path` and `tmp` are the names
`status-current.ssz` and `status-current.ssz.tmp`, and an aggregator that has the
temporary file open (`round[a].file`) keeps writing to that inode wherever its
name goes.  `Partial` stands for any bytes that do not decode: empty, half-written,
or a short record over a longer one.  A step of `publish` may fail, and an
aggregator may be killed between any two; the leftover temporary file stays.
`Rounds` needs none of this, because there at most one publisher exists.

Bounds: a 2-of-3 committee, four inodes (a name each for the record and the
temporary file, and one that each of two aggregators may still hold open; the
single aggregator of the passing run never needs more than three), versions 0 to
3 with one aggregator and 0 to 2 with two.  The fault `"read"` (a read error that
looks like "nothing published") is in no run: without a counter the next round
would then publish version 0 again, which `RoundsImplementRegistry` excludes by
hypothesis.

### CredentialLedger and Holder

A round of an aggregator is a *job* that goes on whether or not anybody waits for
it.  `Handle` takes a trigger; `RequestStatusUpdate` begins a job and the holder
waits for it; `Publish` answers the holder if it still waits; `RequestFails` is a
timeout, a refusal or a lost answer, also one that was lost after the publication.
`Fetch` reads what is published *now*, which may be another round's record.
`Accept` is `accept` with the comparison of versions and the look-up of the
credential, `Save` writes `credential.bin`; a step that writes a file may fail
before or after the rename.  `OtherRound` is everybody else, and also this
holder's own request that arrives after it has given up.

`Mode` decides whether jobs publish in order.  In XMSS mode the registry only grows;
in ML-DSA mode nothing orders the jobs and `published` may go back.  Storage itself is
not authenticated (`holder.rs:12`): with the fault `"replay"`, `Fetch` returns any
record that was ever published (`Readable`), whose signatures are good whatever its age.

Only the mark can tell such a record from a new one, and it does, but both holders go on
to the verdict from a `Stale` record as from an accepted one (see
[Divergences](#divergences)).  `told` is therefore the history of the verdicts that rest
on a record not older than the mark: where storage replays nothing that is every verdict,
and where it does, `ImplementsLedger` says what the mark is good for.  A credential that
such a verdict called revoked is never called valid by one again, through restarts that
leave nothing but the state file; a holder that forgot its mark would break that
(`BuildForgets`).

Bounds: XMSS mode, versions 0 to 2, two identifiers, one job at a time, all faults.  One
job is enough: a quorum exists only for the version that follows the published one, so of
several jobs that are under way together at most one is published, and the others may as
well have begun before it and been abandoned, with the holder still waiting.  The proofs
are for any number of jobs and, except for `AnswersNeverGoBack`, for both modes.

### Verification

Signatures are records of key, message and slot; a hash is what it is taken of.
Members sign any statement at any slot their counter has not passed, so the module
assumes nothing about their policy.  `OfferRaw` and `OfferSnark` try every record
that existing signatures can be arranged into: every bitmap of every width, every
sequence of signatures, every tag, and aggregates that claim a signature nobody
made, also claim SPHINCS signatures, are not canonical or have another body.
`QuorumSuffices` is the other direction: from what `collect_signatures` counts,
the constructors make records that the predicates accept.

Bounds: three XMSS and two ML-DSA keys, five anchors (2-of-3, 1-of-1 with another
genesis, a 2-of-2 ML-DSA committee, and two that must be refused: a key named
twice, a threshold of zero), two lists, versions and slots 0 and 1 (so that slots
overflow), two signatures.  Two signatures are a quorum of every anchor, and two
quorums of the committee with one member; `VerificationProofs` has the general case.

### Bootstrap

Every file of the two shared volumes and of the private ones is a variable, every
wait for a file a guard.  `Reset` lists the committee volume and removes its files one by
one, in any order, so the bootstrap can be killed in between and members can write behind
it.  `Die` is a kill or an expired wait; `Outage` stops everything and may lose one shared
file; `Down` is `demo.sh down`, after which a new run begins.  Whatever stopped is started
again.

The last disjunct of `BootStart` is the `_` arm of its match: any read error, or an empty
file, counts as "no run".  A restarted bootstrap then clears the volumes under live members
of the old run, which may put their old key or a record of their committee beside the new
run identifier.  `rotated` remembers that this has happened since the volumes were new;
only `demo.sh down` ends it.  `NothingStale`, `OneCommittee` and `EveryoneReady` except
such a network.  `IndexOrder` and `SpentStaysSpent`, the two that keep the damage from
reaching keys, hold in it too.

`OneCommittee` speaks of a holder only when its anchor is of the members' run.
When the run identifier is lost, a holder that starts before the bootstrap's
`reset` loads the anchor of the earlier run: `depends_on` in the compose files
orders the starts of the containers, not the reset.  Such a holder refuses every
record until it is started again.  `EveryoneReady` excepts who is refused by
design: a member whose counter belongs to an earlier key, and a holder whose volume
exists without a mark or with one for another anchor.

Bounds: two members, two runs, slots 0 and 1, two faults: enough for a death during
the reset that follows an outage, or after a failed read.

### Corpus

`committee_fixture`, `prover` with a fixture (with or without its controls) and by
itself, and `verifier` run one after the other and are run again with another number of
updates; `check_prover_output` and `raw_agg` over a fixture change nothing and are
predicates over the directories (`OutputPasses`, `RawPasses`).  The demo (`main.rs`) and
`raw_agg` by itself sign and check in memory: their records follow from `job`, and their
keys and signatures are forgotten when they end (`SignedOnFile`).  `signed` holds every
other signature that was ever made, so `NoSlotTwice` covers updates and controls of all
runs; what was signed for a file that a kill has cut short is lost with it, keys included.

A program may be killed between two writes (`Kill`), inside one (`TornWrite`,
`TornFixtureAnchor`, `TornOutAnchor`: `std::fs::write` truncates first, so the name is
there and the content does not decode), and while it removes the files of an earlier run
(`PartlyClearedFixture`, `PartlyClearedOut`).  `fixtureTorn` and `outTorn` name the torn
files; `cut` remembers which directories miss files that their run has written.  An anchor
cut between two members would decode, as a smaller committee; nothing else has been
written by then.

The verifier's mark is a file of the artifact directory unless `VERIFIER_STATE` names
another place; a model has at most one in either place.  Its lock file is created before
anything else and is never removed (`locked`), even if there is no mark to open
(`VerifyRefused`).  `prover` clears neither, and `check_prover_output` refuses both as
unexpected entries: `CompletePasses` therefore asks it only of directories where the
verifier has not been.

`PassMeansComplete` says what a gate that passes is evidence of.  For `verifier` that is
one prover run that wrote every control to its end, except that the last may be torn: the
file counts as present because its name is there and as rejected because it does not
decode (see [Divergences](#divergences)).  `Passed` takes the five checks of the SNARK
predicate apart, which the code cannot: `ControlsIsolated` says that each whole control
fails its own check and no other.

Bounds: a 2-of-3 committee, one or two updates, four key slots beyond the genesis slot
(with two updates, the smallest number `params.rs` admits), lists of two entries (growing
ones in the programs that sign for themselves) and three program starts: a fixture, a
prover over it, and one more that repeats, replaces or destroys either.  `Used` bounds
which program is started when (`Schedule`): the demo and `raw_agg` by itself, which leave
nothing behind, come first, and `prover` by itself, which replaces whatever is in the
artifact directory, last.  The proofs do not depend on it.

## Runs

| Run | Expect | Shows |
|---|---|---|
| `slot_power` | pass | torn records and lost renames are survived: no reuse, no lock-out, foreign state untouched, allocator implemented |
| `slot_torn_reuse` | violation | both together: a record adopted from a dead process is not durable, and the next write overwrites the only durable generation before a tear |
| `freshness` | pass | order, durability and authenticity of the mark under every fault |
| `rounds_faults` | pass | one publisher and one history under all faults |
| `rounds_live` | pass | with one aggregator and no faults, the whole key window is published |
| `rounds_split` | violation | with two aggregators and no faults, a split vote ends all progress |
| `mldsa_single` | pass | one aggregator, failing and killed anywhere: readers see whole records, and the versions follow one another |
| `holder` | pass | whatever older record the volume hands out: saved credentials are covered by the mark, verdicts on records not older than the mark never go back, every trigger is answered |
| `verification` | pass | accepted means signed by t distinct members, one list per version, and t signatures are enough |
| `bootstrap` | pass | bits name members and spent slots stay spent, also when the run identifier cannot be read; otherwise nothing stale, one committee, and everyone becomes ready |
| `corpus` | pass | no slot twice, isolated controls, gates that are evidence, complete runs that pass, wherever programs are killed |
| `mldsa_shared` | violation | two aggregators and no faults: one renames the temporary file that the other has just emptied |

The slot counter violation has a cause with more than one outcome: `open` returns a
counter whose file and directory entry it has read but not synced, whereas every
other path hands out a counter only after a barrier.  It needs a process that dies
without syncing and, after a new process has taken over, a power loss.  With
`LostRenames` instead of `TornRecords` the slots come back because the rename is
undone (`NoSlotReuse` fails too), and with neither, the power loss may write back
the newer record only, and `open` refuses the journal (`Recoverable` fails).
Process deaths alone, with whole records and ordered renames, are harmless: that
is `FaultsTolerated`, for which `SlotsAreOneTime` is proved.

With two aggregators the ML-DSA rounds can also publish two different lists for
one version.  The documents say so and leave the canonical record to the external
storage, so no run asks for more; that a published record is whole is a promise
of `storage.rs` itself.

### Divergences

Four more places where the code does other than a document or comment says.  The models
follow the code; the properties say what holds all the same.

* `src/node/mod.rs:26-27` says of a refused record "Nothing moved", but a directory sync
  that fails after the rename has moved the mark in the file.  `AcceptsInOrder` holds.
* `demo/README.md:132-135` says that a second `verify` is "refused as stale, which is
  exactly what a replayed record looks like", and `demo/src/bin/holder.rs:12` that the
  holder works against a volume nobody authenticates.  The `Stale` arm
  (`holder.rs:426-432`, `mldsa_holder.rs:273`) prints "refused", hands the version on, and
  the credential is looked up in the older list and the trigger answered from it, so a
  credential that was reported revoked can be reported valid again.  For a version equal
  to the mark the arm is right: that is how a repeated `verify` is answered.
  `ImplementsLedger` counts the verdicts from records not older than the mark.
* `demo/src/bin/bootstrap.rs:90-91` says of `reset` "Called only when there is no run
  identifier", and lines 14-16 that a restart does not rotate "the committee under counters
  that are still live".  The `_` arm (lines 36-41, `mldsa_bootstrap.rs:16-23`) takes any
  read error for an absent identifier and does both.  `IndexOrder` and `SpentStaysSpent`
  hold.
* `src/bin/verifier.rs:210-212` says "One control per check, each built so that only its
  own check can reject it", and lines 292-294 that "a security test that declines to run is
  worse than one that fails".  A prover killed inside the write of its last control leaves
  a short file (`std::fs::write`, `prover.rs:71-74`); line 222 counts it as present and
  lines 230-232 as rejected, so the gate passes although that control reached no check.
  (Lines 207-208 count a decode failure as a rejection on purpose, for forgeries that are
  meant not to parse; none of these six is.)  `PassMeansComplete` admits exactly this
  file and no other.

`CHECK_DEADLOCK FALSE` is set where the system really stops: when the key window,
the versions, the signatures (`MaxSignatures`) or the runs (`MaxRuns`) are used up
and no restart is possible; in `bootstrap`, when bootstrap and members of two runs
wait for files that nobody will write until they give up, which is a fault there.

**Fairness** (`rounds_live`, `rounds_split`): every thread that can run is run.
A connection thread that has a proposal answers it, the aggregator's loop takes
the replies in its channel and publishes, its window closes, and status requests
keep coming.  Each is a thread of its own that waits for nothing else.  Nothing is
assumed about lost messages or restarts: these runs have none, and
`rounds_split` fails all the same.  `holder`: each phase of `run_round` ends,
because connect, read and write have timeouts; nothing is assumed of aggregators,
and the trigger is answered all the same.  `bootstrap`: processes run, and the
operator starts again what has stopped; deaths and losses are finitely many
(`MaxFaults`), and the property is about what holds from some point on.

## Theorems

Proved with TLAPS for all values of the constants that satisfy the assumptions
in the modules.

**SlotCounterProofs.**  `TypeCorrect` holds under every fault.  `SlotsAreOneTime`
(`NoSlotReuse`) and `CounterImplementsOneTimeSlots` hold under `FaultsTolerated`:
`ProcessDeath => ~TornRecords /\ ~LostRenames`, the exact line between the passing
runs and the violations.  `NoSlotReuse` is not inductive: it says nothing of
files.  The invariant adds who holds the lock, that a file being installed names a
fresh frontier (`EntryInv`, `InstallInv`), that one half of the journal *anchors*
it (`Anchor`: on disk and in the cache it holds a frontier nobody has passed, and
no record that recovery would prefer holds a spent one), and that a live counter
agrees with the cache (`CounterInv`).  Without process deaths nothing unsynced is
left when no counter is live (`QuiescentInv`).  `ForeignStateIsKept`
(`RefusedStateUntouched`) holds under every fault: whoever has come as far as writing
a journal image has vouched for the state it will replace and keeps the lock, and what
the device remembers differs from what the path names only if that is a journal
(`VouchedInv`).  `CrashesNeverLockOut` (`Recoverable`) holds without process deaths, as
in `slot_power`, for torn records and lost renames: one half of an installed journal is
*steady*, the same on the device and in the cache, and valid, and the other half, whole,
torn or older, cannot make `open` refuse (`SteadyInv`).  With process deaths it is
false, see above.

**FreshnessProofs.**  `TypeCorrect`, `AcceptedMarksAreDurable`,
`MarksAreAuthentic` and `GateAcceptsInOrder`, with no hypothesis on faults.  The
invariant places every mark that can be opened, is held, or is about to be
persisted in `UpperMarks`, the marks that cover all accepted versions, and puts an
advance strictly above the mark in memory.  After a failed directory sync the file
is ahead of memory, which the invariant allows: that is why a refused record can
be accepted or be stale later, but never accepted twice.

**RoundsProofs.**  `TypeCorrect`, `OnlyOnePublisher` and
`RoundsImplementRegistry`, for every committee with 2t > N, every set of
aggregators and every combination of faults.  The argument is that a member's
signature for a version is a vote that exists once: on its way to one round,
counted by one round, or part of the published record (`VoteInv`), because the
counter is past every version voted for (`BurntInv`).  A published version has
used t votes (`PublishedInv`), so no other round for it can reach t
(`QuorumsMeet`); hence a publisher's version is the next one, and its list, built
from the record before it, is one change away (`RoundInv`, `ListInv`).

**MlDsaRoundsProofs.**  `TypeCorrect` for any number of aggregators;
`PublicationAtomic` for one (`OneAggregator`), and `RoundsImplementRegistry` for
one whose reads do not fail silently.  `Files` says that the temporary file is
never the published one, that whoever writes it owns the name, and that it is
complete when it is renamed; `Follows` that the round under way is one change away
from what is published.

**HolderProofs.**  `TypeCorrect` and `Safekeeping` in both modes and under every fault;
`AnswersNeverGoBack` in XMSS mode under every fault, replayed records included.
`SavedIsAccepted` needs that the mark in memory is never ahead of the file and covers what
is about to be saved (`MarkInv`), and that the round under way is about the credential it
was asked for (`AskedInv`).  The answers need the ordered registry and the mark: a later
record has only lost credentials of the versions before it (`PastInv`, from what a job can
still add, `JobInv`), so a credential told revoked is absent from every published record
that the mark, or the one that will be opened, does not call older (`ToldInv`, `Gate`).
What is read was published (`FetchedInv`), and no mark is ahead of that (`BehindInv`).

**VerificationProofs.**  `TypeCorrect`, `Authenticity`, `UniqueList` and
`QuorumAccepted` for all sets of keys, lists and anchors.  `Authenticity` goes from
each predicate to a set of signers, through the fact that bits of a bitmap name
distinct members when the anchor names no key twice.  `UniqueList` adds that a key
has signed one message at most for every slot below its counter and none above,
and that two quorums with 2t > N share a member.  `QuorumAccepted` rests on
lemmas about `Rank`: it is a bijection from the set bits to the positions of the
signatures.

**BootstrapProofs.**  For any number of members, runs, slots and faults, and for both
variants: `TypeCorrect`, `VolumesAreOfOneRun` (`NothingStale`), `CommitteeIsOne`
(`OneCommittee`), `BitsNameMembers` (`IndexOrder`) and `SlotsStaySpent`.  Two invariants
carry them.  `SafeInv` holds through failed reads too and does not ask which run a file is
of: each index is filled from the key file of that index (`OrderInv`), and a counter
belongs to the key it was created for (`KeyInv`), so a key that comes back finds the
counter that has seen all its signatures, as an identifier is drawn once (`DrawnInv`).
`IInv` holds while `~rotated`: the bootstrap then clears the volumes only while there is no
identifier, and without one no member has a key (`RunInv`, `NodeInv`), so nothing can be
written behind it (`ClearedInv`); with one, every key that is collected, published or held
is derived from it (`CollectInv`, `NodeInv`, `CleanInv`).  An anchor that a holder loaded
in an earlier run is at least a whole one (`AnchorInv`).  `Down` establishes `IInv` anew.

**CorpusProofs.**  `TypeCorrect`, `BareKeysSignOnce`, `GatesAreEvidence`,
`ControlsAreIsolated` and `CompleteRunsPass`, for every committee, threshold, list size,
set of update counts and number of program runs that `params.rs` admits; every program
may be killed at any step.  `NoSlotTwice` needs to know how far a program has got:
`Frontier` is the first slot its members have not reached, through the updates and the
three slots of the controls, and every signature of the run is behind it (`SignedInv`).
`PassMeansComplete` needs what each directory is made of, in the order in which it is
written (`OutInv`, `ProgressInv`): the canonical record after all updates, the control
that a program writes last only when it is done; and what a kill can leave (`TornInv`):
at most one torn file in the artifact directory, from a run that has stopped and was not
done, and a canonical record without all its updates only where a later run has begun to
remove them.  `ControlsIsolated` needs that every control is made of signatures that exist
and stay (`OutControlsInv`; for the controls that share signatures, `HonestInv`), through
the files that prover takes from the fixture (`FixtureControlsInv`) or in memory
(`DemoInv`).  The lemmas follow a row of T
signatures through `StatusList::new` (sorted by index), the aggregation inputs and the
aggregate, and show for each control which of the five checks it fails
(`ControlWellMade`).

`CompletePasses` is the converse of `PassMeansComplete`: a gate refuses nothing that a run
has completed.  Its inductive invariant, `CompleteInv`, has five parts.
`FixtureCompleteInv`: each update in the fixture is the raw record of its version's quorum,
signed by keys of the run that prepared it, and committee_fixture has written all updates
and the controls that raw_agg reads before it is done.  `FixtureWhole`: a fixture that no
later run has begun to remove has no gap, so the updates that prover finds are the first
ones.  `OutUpdatesInv`: each update in the artifact directory is the aggregate of such a
quorum over signatures that exist and stay; its list is the fixture's as long as the
fixture is the one prover has read, or, from prover by itself, the list before it and one
entry more.  `OutProgress`: the canonical
record is the last update, and the controls are there as far as the program has got.
`DemoUpdateInv`: the update that the demo checks is signed.  A quorum is any set of T
indices here, so the lemmas on `Rank` are proved for arbitrary sets (`QuorumRanks`): the
i-th signature of the record belongs to the i-th index that is set, which is what
`StatusList::new`, `AggregationInputs` and `verify_status_list` have to agree on
(`UpdateOfQuorum`, `ProvedFacts`).  raw_agg's six controls are each refused by
`verify_status_list` (`RawRefused`), and the rollback control because the mark has reached
the last version, whether it is new or has accepted the directory before (`VerifierGate`).

**Only model-checked:** `QuorumProceeds`, `EveryTriggerAnswered` and `EveryoneReady`
(liveness is out of the prover's reach), and what the violation runs show.  Every
invariant, action property and refinement that a passing run checks is also proved.

## Not modelled

Signature and proof systems (libraries; symbolic in `Verification`), the bytes of
records and messages, and the timing of windows beyond "closes at some point".
Power loss of the shared storage volume during rounds: `Rounds` keeps published
records.  A device that ignores a sync, which the source excludes too.  A failed
sync is assumed not to discard the cached data.  `remove_file` in `reset` does not
fail, and a member's private volume is lost only together with the run (`demo.sh
down`): a volume lost alone would make `create` start a live key's counter anew,
which nothing in the code can notice.  The command line programs run one at a time, as
their scripts run them; what happens inside the verifier's update of its mark is in
`Freshness`.

Of the command line tools, `src/bin/signer.rs` measures one member's `sign_at`, which
`SlotCounter` and `Verification` have; the ML-DSA benchmarks sign, without slots,
what `Corpus` signs; `probe` only asks.  Configuration,
reporting and `src/bench` have no state (`advance_list` is in `Corpus`).

## Plan

`Rounds` over `SlotCounter` in place of an atomic counter, so that the two halves of
burn-before-sign meet in one specification.
