\* Two aggregators in a 2-of-3 committee, every fault.
CONSTANTS
  m1 = m1
  m2 = m2
  m3 = m3
  m4 = m4
  i1 = i1
  Member = {m1, m2, m3}
  Aggregator = {m1, m2}
  NoAggregator = NoAggregator
  Threshold = 2
  KeyLast = 1
  MaxVersion = 1
  MaxInFlight = 1
  CredentialId = {i1}
  Faults = {"loss", "timeout", "error", "restart", "read"}
SYMMETRY Symmetry
SPECIFICATION Spec
INVARIANTS
  TypeOK
  OnePublisher
PROPERTY ImplementsRegistry
