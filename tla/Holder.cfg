\* XMSS mode, every fault, replayed records included.
CONSTANTS
  i1 = i1
  i2 = i2
  Mode = "xmss"
  CredentialId = {i1, i2}
  MaxVersion = 2
  MaxJobs = 1
  Faults = {"restart", "error", "read", "replay"}
SPECIFICATION Spec
INVARIANTS
  TypeOK
  SavedIsAccepted
PROPERTIES
  ImplementsLedger
  EveryTriggerAnswered
