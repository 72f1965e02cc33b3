------------------------------ MODULE Freshness ------------------------------
(***************************************************************************)
(* HighWaterMark (src/state/freshness.rs) and the nodes that own one       *)
(* (src/node/raw_node.rs, src/node/snark_node.rs): the durable             *)
(* anti-rollback mark of a verifier.  A record is authenticated first; only *)
(* then is its version offered to the mark, which accepts it when it is     *)
(* strictly newer than everything accepted before.                         *)
(*                                                                         *)
(* Every persist replaces the whole file: the new text is synced to a      *)
(* sibling, renamed over the path and the directory is synced.  So a file  *)
(* is one value, and the model keeps what the path names now (path) apart  *)
(* from what it names after a power loss (durable).                        *)
(*                                                                         *)
(* Left out: the anchor fingerprint and the text of the file (a file is    *)
(* missing, invalid for this anchor, or a mark), and the .tmp sibling,     *)
(* which nobody reads.                                                     *)
(***************************************************************************)
EXTENDS Integers

CONSTANTS
  Proc, NoProc,     \* processes that run a verifier with this state file
  MaxVersion,       \* largest u32, the type of a version
  FileLoss          \* may the state file be deleted or damaged?

ASSUME ProcAssumption == NoProc \notin Proc
ASSUME VersionAssumption == MaxVersion \in Nat
ASSUME LossAssumption == FileLoss \in BOOLEAN

VARIABLES
  lock,       \* the process that holds the exclusive lock, or NoProc
  pc,         \* where each process is in a call
  call,       \* the call it is in
  mem,        \* the mark it has in memory (current and have)
  want,       \* the mark it is about to persist
  path,       \* what the state file says to a process that reads it
  durable,    \* what it will say after a power loss
  latest,     \* the registry's latest authentic version
  accepted    \* history: how often each version was accepted

vars == <<lock, pc, call, mem, want, path, durable, latest, accepted>>

Version == 0 .. MaxVersion
Nothing == -1                   \* a mark that has accepted nothing ("none")
Invalid == -2                   \* malformed, or the mark of another anchor
Missing == -3                   \* no file
Mark    == Nothing .. MaxVersion
Content == Missing .. MaxVersion

PCs   == {"down", "check", "rename", "dirsync", "ready"}
Calls == {"none", "create", "open", "recover", "advance"}

TypeOK ==
  /\ lock \in Proc \cup {NoProc}
  /\ pc \in [Proc -> PCs]
  /\ call \in [Proc -> Calls]
  /\ mem \in [Proc -> Mark]
  /\ want \in [Proc -> Mark]
  /\ path \in Content
  /\ durable \in Content
  /\ latest \in Mark
  /\ accepted \in [Version -> Nat]

\* The promise, the one a slot counter makes of slots: versions are accepted
\* in strictly increasing order.
Gate == INSTANCE OneTimeSlots WITH SlotStart <- 0, SlotEnd <- MaxVersion, uses <- accepted

Init ==
  /\ lock = NoProc
  /\ pc = [p \in Proc |-> "down"]
  /\ call = [p \in Proc |-> "none"]
  /\ mem = [p \in Proc |-> Nothing]
  /\ want = [p \in Proc |-> Nothing]
  /\ path \in {Missing, Invalid}
  /\ durable = path
  /\ latest = Nothing
  /\ accepted = [v \in Version |-> 0]

-----------------------------------------------------------------------------
(* create, open and load_from_trusted_source                               *)

\* Mutant: a file that does not parse is taken for a mark.
ParsesAnything(content) == TRUE

\* parse succeeds: the file is a mark of this anchor.
Parses(content) == content >= Nothing

\* Mutant: an equal version counts as newer.
NewerOrEqual(version, mark) == version >= mark

\* The gate's comparison; Nothing is below version 0.
Newer(version, mark) == version > mark

\* The contracts the doc comments put on the caller: create is for a verifier
\* that has accepted nothing, recovery brings the canonical-latest version.
CallerMay(c) ==
  /\ c = "create"  => path # Missing \/ \A v \in Version : accepted[v] = 0
  /\ c = "recover" => latest # Nothing

\* Each of the three constructors takes the lock first; Busy changes nothing.
AcquireLock(p, c) ==
  /\ pc[p] = "down" /\ CallerMay(c)
  /\ lock = NoProc
  /\ lock' = p
  /\ pc' = [pc EXCEPT ![p] = "check"]
  /\ call' = [call EXCEPT ![p] = c]
  /\ want' = [want EXCEPT ![p] = IF c = "recover" THEN latest ELSE Nothing]
  /\ UNCHANGED <<mem, path, durable, latest, accepted>>

\* The mark and its lock are dropped.
Drop(p) ==
  /\ lock' = NoProc
  /\ pc' = [pc EXCEPT ![p] = "down"]
  /\ call' = [call EXCEPT ![p] = "none"]
  /\ mem' = [mem EXCEPT ![p] = Nothing]
  /\ want' = [want EXCEPT ![p] = Nothing]
  /\ UNCHANGED <<path, durable, latest, accepted>>

\* The constructor builds the mark in memory and starts to persist it.
StartPersist(p, mark) ==
  /\ mem' = [mem EXCEPT ![p] = mark]
  /\ pc' = [pc EXCEPT ![p] = "rename"]
  /\ UNCHANGED <<lock, call, want, path, durable, latest, accepted>>

\* create persists the empty mark, and refuses any file that is there.
Create(p) ==
  /\ pc[p] = "check" /\ call[p] = "create"
  /\ \/ path = Missing /\ StartPersist(p, Nothing)
     \/ path # Missing /\ Drop(p)

\* open refuses a file that is missing or does not parse.
Open(p) ==
  /\ pc[p] = "check" /\ call[p] = "open"
  /\ \/ /\ Parses(path)
        /\ mem' = [mem EXCEPT ![p] = path]
        /\ pc' = [pc EXCEPT ![p] = "ready"]
        /\ call' = [call EXCEPT ![p] = "none"]
        /\ UNCHANGED <<lock, want, path, durable, latest, accepted>>
     \/ ~Parses(path) /\ Drop(p)

\* load_from_trusted_source refuses to replace a file that parses.
LoadFromTrustedSource(p) ==
  /\ pc[p] = "check" /\ call[p] = "recover"
  /\ \/ ~Parses(path) /\ StartPersist(p, want[p])
     \/ Parses(path) /\ Drop(p)

-----------------------------------------------------------------------------
(* Offering a record                                                       *)

\* Mutant: the version is offered before the record is verified.
AuthenticUnchecked(version) == TRUE

\* Decoding and verifying under the anchor: what the committee has signed.
Authentic(version) == version <= latest

\* accept: decode, verify, and only then try_advance.  A record that does not
\* authenticate is Refused and one that is not newer is Stale: nothing moves.
Accept(p, version) ==
  /\ pc[p] = "ready"
  /\ Authentic(version)
  /\ Newer(version, mem[p])
  /\ want' = [want EXCEPT ![p] = version]
  /\ call' = [call EXCEPT ![p] = "advance"]
  /\ pc' = [pc EXCEPT ![p] = "rename"]
  /\ UNCHANGED <<lock, mem, path, durable, latest, accepted>>

-----------------------------------------------------------------------------
(* persist                                                                 *)

\* The synced sibling is renamed over the path ...
Rename(p) ==
  /\ pc[p] = "rename"
  /\ path' = want[p]
  /\ pc' = [pc EXCEPT ![p] = "dirsync"]
  /\ UNCHANGED <<lock, call, mem, want, durable, latest, accepted>>

\* Mutant: the directory is not synced.
DirSyncSkipped(p) ==
  /\ pc[p] = "dirsync"
  /\ pc' = [pc EXCEPT ![p] = "ready"]
  /\ mem' = [mem EXCEPT ![p] = want[p]]
  /\ accepted' = IF call[p] = "advance"
                 THEN [accepted EXCEPT ![want[p]] = @ + 1] ELSE accepted
  /\ call' = [call EXCEPT ![p] = "none"]
  /\ UNCHANGED <<lock, want, path, durable, latest>>

\* ... and the directory is synced.  Memory moves after that, and only then is
\* the version Accepted.
DirSync(p) ==
  /\ pc[p] = "dirsync"
  /\ durable' = path
  /\ pc' = [pc EXCEPT ![p] = "ready"]
  /\ mem' = [mem EXCEPT ![p] = want[p]]
  /\ accepted' = IF call[p] = "advance"
                 THEN [accepted EXCEPT ![want[p]] = @ + 1] ELSE accepted
  /\ call' = [call EXCEPT ![p] = "none"]
  /\ UNCHANGED <<lock, want, path, latest>>

\* A write, sync or rename fails before it or the directory sync fails after
\* it.  try_advance keeps its old mark and the record is Refused; a constructor
\* returns the error and drops what it built.
PersistFails(p) ==
  /\ pc[p] \in {"rename", "dirsync"}
  /\ \/ /\ call[p] = "advance"
        /\ pc' = [pc EXCEPT ![p] = "ready"]
        /\ call' = [call EXCEPT ![p] = "none"]
        /\ UNCHANGED <<lock, mem, want, path, durable, latest, accepted>>
     \/ call[p] # "advance" /\ Drop(p)

-----------------------------------------------------------------------------
(* The environment                                                         *)

\* The committee publishes the next version.
Publish ==
  /\ latest < MaxVersion
  /\ latest' = latest + 1
  /\ UNCHANGED <<lock, pc, call, mem, want, path, durable, accepted>>

\* A verifier exits or is killed, wherever it is.
Leave(p) == pc[p] # "down" /\ Drop(p)

Writeback ==
  /\ durable # path
  /\ durable' = path
  /\ UNCHANGED <<lock, pc, call, mem, want, path, latest, accepted>>

PowerLoss ==
  /\ lock' = NoProc
  /\ pc' = [p \in Proc |-> "down"]
  /\ call' = [p \in Proc |-> "none"]
  /\ mem' = [p \in Proc |-> Nothing]
  /\ want' = [p \in Proc |-> Nothing]
  /\ path' = durable
  /\ UNCHANGED <<durable, latest, accepted>>

\* The file is deleted or damaged (not under a create that was told it is the
\* first: see CallerMay).
LoseFile ==
  /\ FileLoss
  /\ \A p \in Proc : call[p] # "create"
  /\ path' \in {Missing, Invalid}
  /\ durable' = path'
  /\ UNCHANGED <<lock, pc, call, mem, want, latest, accepted>>

-----------------------------------------------------------------------------
Next ==
  \/ \E p \in Proc :
       \/ \E c \in {"create", "open", "recover"} : AcquireLock(p, c)
       \/ Create(p) \/ Open(p) \/ LoadFromTrustedSource(p)
       \/ \E version \in Version : Accept(p, version)
       \/ Rename(p) \/ DirSync(p) \/ PersistFails(p)
       \/ Leave(p)
  \/ Publish \/ Writeback \/ PowerLoss \/ LoseFile

Spec == Init /\ [][Next]_vars

-----------------------------------------------------------------------------
(* Properties                                                              *)

\* The gate implements the abstract promise: through restarts, power losses,
\* failed writes and recoveries, a verifier accepts versions in strictly
\* increasing order, so no record is ever accepted twice or after a newer one.
AcceptsInOrder == Gate!Spec

\* Every mark a verifier could open, now or after a power loss, covers each
\* version that was reported as Accepted ("the mark advanced and is on disk
\* before this is returned", src/node/mod.rs).
Covers(content) ==
  Parses(content) => \A v \in Version : accepted[v] # 0 => v <= content
AcceptedIsDurable == Covers(path) /\ Covers(durable)

\* No mark runs ahead of what the committee signed: a record that does not
\* verify can never make a verifier refuse the authentic ones as stale.
MarkIsAuthentic ==
  /\ path <= latest /\ durable <= latest
  /\ \A p \in Proc : mem[p] <= latest
=============================================================================
