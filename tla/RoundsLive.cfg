\* One aggregator and nothing goes wrong; the run stops when versions run out.
CONSTANTS
  m1 = m1
  m2 = m2
  m3 = m3
  m4 = m4
  i1 = i1
  Member = {m1, m2, m3}
  Aggregator = {m1}
  NoAggregator = NoAggregator
  Threshold = 2
  KeyLast = 2
  MaxVersion = 2
  MaxInFlight = 3
  CredentialId = {i1}
  Faults = {}
SPECIFICATION FairSpec
PROPERTY QuorumProceeds
CHECK_DEADLOCK FALSE
