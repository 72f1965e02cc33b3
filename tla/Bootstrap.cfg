\* Two XMSS members and the holder, with deaths, lost files, a failed read of the
\* run identifier and a new run.
CONSTANTS
  N = 2
  Stateful = TRUE
  MaxRuns = 2
  MaxSlot = 1
  MaxFaults = 2
SPECIFICATION Spec
INVARIANTS
  TypeOK
  NothingStale
  OneCommittee
  IndexOrder
  SpentStaysSpent
PROPERTIES
  EveryoneReady
\* Members of an old run and the new bootstrap wait for files that nobody writes
\* until they give up, which is a fault, and the bound may be reached.
CHECK_DEADLOCK FALSE
